---- MODULE Spec2Model ----
(***************************************************************************)
(* Resource handles of llvm-codegen-utils-core.                            *)
(*                                                                         *)
(* The repository holds two LLHandle implementations:                      *)
(*   - crates/llvm-codegen-utils-core: a global registry M, a BTreeMap     *)
(*     keyed by the raw address, behind a Mutex ("registry", suffix R);    *)
(*   - llvm-codegen-utils-core: one Arc<LLShim> block per created handle   *)
(*     ("shared block", suffix A).                                         *)
(* Both are driven in lockstep by the same sequence of create, clone and   *)
(* drop operations, so that each keeps its own state and its own log of    *)
(* release-routine invocations.                                            *)
(***************************************************************************)
EXTENDS Bags, FiniteSets, Integers, Sequences, TLC

\* ---------------------------------------------------------------- bounds
\* from_raw_parts / leaked calls in one run.
MaxRes == 2
\* Handles live at once.
MaxHandles == 3
\* Threads that clone and drop.
NumThreads == 2

\* Capability interfaces: calls of one operation, of BB::new and of the
\* instruction operations in one run, and handles the caller holds at once.
MaxPerOp == 1
MaxBlocks == 1
MaxInsts == 1
MaxIRHandles == 3
\* Values in the argument list of one call / gep2.
MaxArgs == 1
\* More than any operation's calls: the distance between two operations' names.
SlotStride == 10
\* Handle operations one run of a release routine makes.
MaxNested == 1

\* The null pointer.
NULL == 0
\* Raw addresses handed to from_raw_parts / leaked: null and two others.
Ptrs == {NULL, 1, 2}
\* The payloads (`key: K`): the two marker structs of the crate.
Keys == {"Normal", "FuncTag"}
\* The dropper `|_, _| {}` that the shared-block `leaked` installs.
NoopDropper == 0

VARIABLES
    created,   \* every from_raw_parts / leaked call so far, by the key box it allocated
    hR,        \* registry: bag of live LLHandle { val, key }
    M,         \* registry: the static BTreeMap  address -> (count, closure)
    keyFreed,  \* registry: key boxes consumed by Box::from_raw
    relR,      \* registry: dropper invocations, in order
    hA,        \* shared block: bag of live LLHandle(Arc<LLShim>), by block
    shim,      \* shared block: the LLShim blocks and their strong counts
    relA,      \* shared block: dropper invocations, in order
    pend,      \* threads inside a drop, past the unlock / the decrement: per thread
               \* the closure call (r) and the LLShim drop (a) it still has to make
    aliased,   \* creations whose address another creation used while they were live
    cloned,    \* creations a handle of which the Clone action has cloned
    objs,      \* backend: the objects it has allocated; the address of one is its index
    pos,       \* backend: per builder address, the block it is positioned at (0: none)
    insts,     \* backend: the LLVMBuild* calls made, in order
    todo,      \* the by-value handle arguments the running operation has yet to drop
    deferred,  \* the LLVMBuild* call the running instruction operation has yet to make
    collected, \* the operation with a list that is running and the length of its Vec
    outcome,   \* what that operation did: the count the backend was given, or a panic
    features,  \* the build: the enabled llvm-sys-* features and the vers! call
    expanded,  \* the macro invocations vers! expanded to under the build
    done,      \* the calls of the caller's program that were made
    read,      \* the last call of an accessor and what each implementation returned
    lock,      \* registry: the thread that holds the Mutex of M (0: unlocked)
    stack,     \* registry: per thread, the calls it is inside of, the innermost last
    wired,     \* the implementation set under compilation: per impl, its associated types
    checked,   \* what the compiler said of it
    text,      \* maintenance tool: the file read, the rewrite asked and the version table
    written    \* maintenance tool: what each run wrote, in order

hvars == <<created, hR, M, keyFreed, relR, hA, shim, relA, pend, aliased, cloned>>
irvars == <<objs, pos, insts, todo, deferred>>
\* The state of the accessors and of the registry's Mutex.
avars == <<read, lock, stack>>
\* The state of a compilation of an implementation set and of the maintenance tool.
bvars == <<wired, checked, text, written>>
gvars == <<collected, outcome, features, expanded, done, avars, bvars>>
vars == <<hvars, irvars, gvars>>

\* ------------------------------------------------------- registry (crates/)

\* An empty BTreeMap.
EmptyMap == [q \in {} |-> 0]

\* M.insert(ptr as usize, (0, closure)): closure `c` captures creation c's dropper.
MapInsert(m, ptr, rec) ==
    [q \in (DOMAIN m) \cup {ptr} |-> IF q = ptr THEN rec ELSE m[q]]

\* M.remove(&ptr)
MapRemove(m, ptr) == [q \in (DOMAIN m) \ {ptr} |-> m[q]]

\* LLHandle::from_raw_parts: the registry after the insert.
RegFromRawParts(m, ptr, c) == MapInsert(m, ptr, [n |-> 0, f |-> c])

\* A leaked that inserts a record under the address.
RegLeakedInserting(m, ptr, c) == MapInsert(m, ptr, [n |-> 0, f |-> c])

\* LLHandle::leaked: the registry is not touched.
RegLeaked(m, ptr, c) == m

\* The handle either constructor returns: the address and the boxed key.
RegHandle(ptr, c) == [val |-> ptr, key |-> c]

\* A clone that leaves the count alone.
RegCloneMapUncounted(m, h) == m

\* impl Clone: the count stored under the handle's address, if any, goes up.
RegCloneMap(m, h) ==
    IF h.val \in DOMAIN m THEN [m EXCEPT ![h.val].n = @ + 1] ELSE m

\* impl Clone: the handle returned.
RegCloneHandle(h) == [val |-> h.val, key |-> h.key]

\* impl Drop, under the lock: the registry afterwards.
RegDropMap(m, h) ==
    IF h.val \notin DOMAIN m THEN m
    ELSE IF m[h.val].n = 0 THEN MapRemove(m, h.val)
    ELSE MapInsert(MapRemove(m, h.val), h.val, [n |-> m[h.val].n - 1, f |-> m[h.val].f])

\* A drop that calls the closure whatever the count.
RegDropCallAlways(m, h) ==
    IF h.val \in DOMAIN m
    THEN <<[f |-> m[h.val].f, val |-> h.val, key |-> h.key]>>
    ELSE <<>>

\* impl Drop: the call b(self.val, self.key) made once the lock is dropped.
RegDropCall(m, h) ==
    IF h.val \in DOMAIN m /\ m[h.val].n = 0
    THEN <<[f |-> m[h.val].f, val |-> h.val, key |-> h.key]>>
    ELSE <<>>

\* ------------------------------------------- shared block (llvm-codegen-utils-core)

\* A constructor that stores a default payload instead of the one given.
ArcFromRawPartsDefaultKey(ptr, dropper, key) ==
    [val |-> ptr, dropper |-> dropper, key |-> "Normal", strong |-> 1]

\* LLHandle::from_raw_parts: Arc::new(LLShim { val, dropper, key }).
ArcFromRawParts(ptr, dropper, key) ==
    [val |-> ptr, dropper |-> dropper, key |-> key, strong |-> 1]

\* LLHandle::leaked: from_raw_parts with the empty dropper.
ArcLeaked(ptr, key) == ArcFromRawParts(ptr, NoopDropper, key)

\* impl Clone: Arc::clone.
ArcClone(s, b) == [s EXCEPT ![b].strong = @ + 1]

\* Arc's drop: the strong count goes down.
ArcDrop(s, b) == [s EXCEPT ![b].strong = @ - 1]

\* Arc's drop: the block is dropped by whoever took the count from 1 to 0.
ArcDropCall(s, b) == IF s[b].strong = 1 THEN <<b>> ELSE <<>>

\* ---------------------------------------------------------------- state

Creations == DOMAIN created
NumCreated == Cardinality(Creations)
Live == BagCardinality(hR)
\* Some thread is not inside a drop.
SomeIdle == BagCardinality(pend) < NumThreads
\* Creations that still have a live handle.
Active(c) == \E h \in BagToSet(hR) : h.key = c
\* Creations live at address p when another creation uses it.
Sharing(p) == {c \in Creations : created[c].ptr = p /\ Active(c)}

HInit ==
    /\ created = EmptyMap
    /\ hR = EmptyBag
    /\ M = EmptyMap
    /\ keyFreed = {}
    /\ relR = <<>>
    /\ hA = EmptyBag
    /\ shim = EmptyMap
    /\ relA = <<>>
    /\ pend = EmptyBag
    /\ aliased = {}
    /\ cloned = {}

IRInit ==
    /\ objs = EmptyMap
    /\ pos = EmptyMap
    /\ insts = <<>>
    /\ todo = <<>>
    /\ deferred = <<>>

\* create_owned: LLHandle::from_raw_parts(ptr, dropper, key) in both implementations.
DoCreateOwned(c, p, k, ty, by) ==
    /\ created' = MapInsert(created, c, [ptr |-> p, key |-> k, owned |-> TRUE, ty |-> ty, by |-> by])
    /\ M' = RegFromRawParts(M, p, c)
    /\ hR' = hR (+) SetToBag({RegHandle(p, c)})
    /\ shim' = MapInsert(shim, c, ArcFromRawParts(p, c, k))
    /\ hA' = hA (+) SetToBag({c})
    /\ aliased' = IF Sharing(p) = {} THEN aliased ELSE aliased \cup Sharing(p) \cup {c}
    /\ UNCHANGED <<keyFreed, relR, relA, pend, cloned>>

\* A leaked that registers the handle as from_raw_parts does.
DoCreateLeakedOwning(c, p, k, ty, by) == DoCreateOwned(c, p, k, ty, by)

\* create_nonowning: LLHandle::leaked(ptr, key) in both implementations.
DoCreateLeaked(c, p, k, ty, by) ==
    /\ created' = MapInsert(created, c, [ptr |-> p, key |-> k, owned |-> FALSE, ty |-> ty, by |-> by])
    /\ M' = RegLeaked(M, p, c)
    /\ hR' = hR (+) SetToBag({RegHandle(p, c)})
    /\ shim' = MapInsert(shim, c, ArcLeaked(p, k))
    /\ hA' = hA (+) SetToBag({c})
    /\ aliased' = IF Sharing(p) = {} THEN aliased ELSE aliased \cup Sharing(p) \cup {c}
    /\ UNCHANGED <<keyFreed, relR, relA, pend, cloned>>

\* clone of one live handle, in both implementations.
DoClone(h) ==
    /\ M' = RegCloneMap(M, h)
    /\ hR' = hR (+) SetToBag({RegCloneHandle(h)})
    /\ shim' = ArcClone(shim, h.key)
    /\ hA' = hA (+) SetToBag({h.key})
    /\ UNCHANGED <<created, keyFreed, relR, relA, pend, aliased>>

\* The calls a drop of h still owes once the registry lock is released and the
\* strong count decremented.
Owed(h) == [r |-> RegDropCall(M, h), a |-> ArcDropCall(shim, h.key)]
NothingOwed == [r |-> <<>>, a |-> <<>>]

\* drop of one live handle by some thread, up to the point where the registry
\* lock is released / the strong count has been decremented.
DoDropLocked(h) ==
    /\ hR' = hR (-) SetToBag({h})
    /\ M' = RegDropMap(M, h)
    /\ hA' = hA (-) SetToBag({h.key})
    /\ shim' = ArcDrop(shim, h.key)
    /\ pend' = IF Owed(h) = NothingOwed THEN pend ELSE pend (+) SetToBag({Owed(h)})
    /\ UNCHANGED <<created, keyFreed, relR, relA, aliased, cloned>>

\* The registry closure: dropper(ptr, *Box::from_raw(key)).  Reading a key box
\* that was already consumed is a use after free: any payload may come out.
RegRelease(call, k) ==
    /\ k \in (IF call.key \in keyFreed THEN Keys ELSE {created[call.key].key})
    /\ relR' = Append(relR, [fn |-> call.f, ptr |-> call.val, box |-> call.key, key |-> k])
    /\ keyFreed' = keyFreed \cup {call.key}

\* LLShim::drop: (self.dropper)(self.val, key).
ArcRelease(b) ==
    relA' = Append(relA, [fn |-> shim[b].dropper, ptr |-> shim[b].val, box |-> b,
                          key |-> shim[b].key])

\* The rest of a drop: the thread makes the calls it owes, in each implementation.
DoDropRelease(e) ==
    /\ IF e.r # <<>>
       THEN \E k \in Keys : RegRelease(e.r[1], k)
       ELSE UNCHANGED <<relR, keyFreed>>
    /\ IF e.a # <<>> THEN ArcRelease(e.a[1]) ELSE UNCHANGED relA
    /\ pend' = pend (-) SetToBag({e})
    /\ UNCHANGED <<created, hR, M, hA, shim, aliased, cloned>>

CreateOwned ==
    \E p \in Ptrs, k \in Keys :
        /\ NumCreated < MaxRes /\ Live < MaxHandles
        /\ SomeIdle
        /\ DoCreateOwned(NumCreated + 1, p, k, "Value", "from_raw_parts")
        /\ UNCHANGED irvars
        /\ UNCHANGED gvars

CreateLeaked ==
    \E p \in Ptrs, k \in Keys :
        /\ NumCreated < MaxRes /\ Live < MaxHandles
        /\ SomeIdle
        /\ DoCreateLeaked(NumCreated + 1, p, k, "Value", "leaked")
        /\ UNCHANGED irvars
        /\ UNCHANGED gvars

Clone ==
    \E h \in BagToSet(hR) :
        /\ Live < MaxHandles
        /\ SomeIdle
        /\ DoClone(h)
        /\ cloned' = cloned \cup {h.key}
        /\ UNCHANGED irvars
        /\ UNCHANGED gvars

DropLocked ==
    \E h \in BagToSet(hR) :
        /\ SomeIdle
        /\ DoDropLocked(h)
        /\ UNCHANGED irvars
        /\ UNCHANGED gvars

DropRelease ==
    \E e \in BagToSet(pend) :
        /\ DoDropRelease(e)
        /\ UNCHANGED irvars
        /\ UNCHANGED gvars

\* No operation with a list is running, and no build is chosen.
GInit ==
    /\ collected = <<>>
    /\ outcome = <<>>
    /\ features = <<>>
    /\ expanded = <<>>
    /\ done = {}
    /\ read = <<>>
    /\ lock = 0
    /\ stack = [t \in 1..NumThreads |-> <<>>]
    /\ wired = <<>>
    /\ checked = <<>>
    /\ text = <<>>
    /\ written = <<>>

Init == HInit /\ IRInit /\ GInit

Next ==
    \/ CreateOwned
    \/ CreateLeaked
    \/ Clone
    \/ DropLocked
    \/ DropRelease

Spec == Init /\ [][Next]_vars

\* ------------------------------------------------- the registry's Mutex
\* The registry implementation with M.lock() made explicit: a thread is inside
\* from_raw_parts, clone or drop, waiting for the Mutex ("lock"), holding it
\* ("locked"), or, in drop, inside the closure it took out of M ("call"); the
\* dropper the closure calls is foreign code and may itself create, clone and
\* drop handles.

Threads == 1..NumThreads
Top(t) == stack[t][Len(stack[t])]
Push(t, f) == [stack EXCEPT ![t] = Append(@, f)]
Pop(t) == [stack EXCEPT ![t] = SubSeq(@, 1, Len(@) - 1)]
SetTop(t, f) == [stack EXCEPT ![t] = Append(SubSeq(@, 1, Len(@) - 1), f)]
\* Thread t is free to start an operation: it is in no call, or inside a
\* dropper that has operations left to make.
MayStart(t) ==
    IF stack[t] = <<>> THEN TRUE ELSE Top(t).at = "call" /\ Top(t).left > 0
Started(t, f) ==
    IF stack[t] = <<>> THEN Push(t, f)
    ELSE [stack EXCEPT ![t] = Append(SubSeq(@, 1, Len(@) - 1), [Top(t) EXCEPT !.left = @ - 1]) \o <<f>>]

\* A drop that calls the closure before it drops the guard.
LockHeldAtCall(t) == t

\* impl Drop: drop(lock) comes before b(self.val.cast(), self.key.cast()).
LockAtCall(t) == 0

\* from_raw_parts, to the point where it asks for the Mutex: the key is boxed.
LockCreate(t) ==
    \E p \in Ptrs, k \in Keys :
        /\ MayStart(t)
        /\ NumCreated < MaxRes /\ Live < MaxHandles
        /\ created' = MapInsert(created, NumCreated + 1,
                                [ptr |-> p, key |-> k, owned |-> TRUE, ty |-> "Value",
                                 by |-> "from_raw_parts"])
        /\ stack' = Started(t, [op |-> "create", h |-> RegHandle(p, NumCreated + 1),
                                at |-> "lock", call |-> <<>>, left |-> 0])
        /\ UNCHANGED <<hR, M, keyFreed, relR, hA, shim, relA, pend, aliased, cloned>>
        /\ UNCHANGED <<irvars, collected, outcome, features, expanded, bvars, done, read, lock>>

\* clone(&self), to the point where it asks for the Mutex.
LockClone(t) ==
    \E h \in BagToSet(hR) :
        /\ MayStart(t)
        /\ Live < MaxHandles
        /\ stack' = Started(t, [op |-> "clone", h |-> h, at |-> "lock", call |-> <<>>,
                                left |-> 0])
        /\ UNCHANGED <<hvars, irvars, collected, outcome, features, expanded, bvars, done, read, lock>>

\* drop(&mut self), to the point where it asks for the Mutex: the handle is
\* no longer the caller's.
LockDrop(t) ==
    \E h \in BagToSet(hR) :
        /\ MayStart(t)
        /\ \A u \in Threads : \A i \in 1..Len(stack[u]) :
               stack[u][i].op = "clone" => stack[u][i].h # h \/ CopiesIn(h, hR) > 1
        /\ hR' = hR (-) SetToBag({h})
        /\ stack' = Started(t, [op |-> "drop", h |-> h, at |-> "lock", call |-> <<>>,
                                left |-> 0])
        /\ UNCHANGED <<created, M, keyFreed, relR, hA, shim, relA, pend, aliased, cloned>>
        /\ UNCHANGED <<irvars, collected, outcome, features, expanded, bvars, done, read, lock>>

\* M.lock(): the thread waits until no thread holds the Mutex; std's Mutex is
\* not reentrant, so a thread that holds it waits for ever.
Acquire(t) ==
    /\ stack[t] # <<>> /\ Top(t).at = "lock"
    /\ lock = 0
    /\ lock' = t
    /\ stack' = SetTop(t, [Top(t) EXCEPT !.at = "locked"])
    /\ UNCHANGED <<hvars, irvars, collected, outcome, features, expanded, bvars, done, read>>

\* The part of an operation under the Mutex, to the drop of the guard: the
\* insert of from_raw_parts, the increment of clone, the remove and re-insert
\* of drop.
Locked(t) ==
    /\ stack[t] # <<>> /\ Top(t).at = "locked"
    /\ LET f == Top(t) IN
        CASE f.op = "create" ->
                /\ M' = RegFromRawParts(M, f.h.val, f.h.key)
                /\ hR' = hR (+) SetToBag({f.h})
                /\ lock' = 0
                /\ stack' = Pop(t)
          [] f.op = "clone" ->
                /\ M' = RegCloneMap(M, f.h)
                /\ hR' = hR (+) SetToBag({RegCloneHandle(f.h)})
                /\ lock' = 0
                /\ stack' = Pop(t)
          [] f.op = "drop" ->
                /\ M' = RegDropMap(M, f.h)
                /\ hR' = hR
                /\ IF RegDropCall(M, f.h) = <<>>
                   THEN lock' = 0 /\ stack' = Pop(t)
                   ELSE /\ lock' = LockAtCall(t)
                        /\ stack' = SetTop(t, [f EXCEPT !.at = "call",
                                                        !.call = RegDropCall(M, f.h),
                                                        !.left = MaxNested])
    /\ UNCHANGED <<created, keyFreed, relR, hA, shim, relA, pend, aliased, cloned>>
    /\ UNCHANGED <<irvars, collected, outcome, features, expanded, bvars, done, read>>

\* The closure returns: the dropper has run on the pointer and the unboxed key.
Return(t) ==
    /\ stack[t] # <<>> /\ Top(t).at = "call"
    /\ \E k \in Keys : RegRelease(Top(t).call[1], k)
    /\ stack' = Pop(t)
    /\ UNCHANGED <<created, hR, M, hA, shim, relA, pend, aliased, cloned>>
    /\ UNCHANGED <<irvars, collected, outcome, features, expanded, bvars, done, read, lock>>

NextLock ==
    \/ \E t \in Threads : LockCreate(t)
    \/ \E t \in Threads : LockClone(t)
    \/ \E t \in Threads : LockDrop(t)
    \/ \E t \in Threads : Acquire(t)
    \/ \E t \in Threads : Locked(t)
    \/ \E t \in Threads : Return(t)

SpecLock == Init /\ [][NextLock]_vars
\* The Mutex lets every waiting thread in, and a thread inside an operation or
\* a dropper runs on.
SpecLockFair ==
    /\ SpecLock
    /\ \A t \in Threads : SF_vars(Acquire(t)) /\ WF_vars(Locked(t)) /\ WF_vars(Return(t))

\* ------------------------------------------------------------- accessors
\* LLHandle::ptr(&self): self.val in the registry implementation, self.0.val in
\* the shared block.
PtrRead ==
    \E h \in BagToSet(hR) :
        /\ read' = <<[op |-> "ptr", box |-> h.key,
                     ptrs |-> <<h.val, shim[h.key].val>>, keys |-> <<>>]>>
        /\ UNCHANGED <<hvars, irvars, collected, outcome, features, expanded, bvars, done, lock, stack>>

\* LLHandle::key(&self): &*self.key in the registry implementation, a read of
\* the key box (of freed memory when the box was consumed: any payload may come
\* out); self.0.key.assume_init_ref() in the shared block.
KeyRead ==
    \E h \in BagToSet(hR) :
        \E k \in (IF h.key \in keyFreed THEN Keys ELSE {created[h.key].key}) :
            /\ read' = <<[op |-> "key", box |-> h.key,
                         ptrs |-> <<>>, keys |-> <<k, shim[h.key].key>>]>>
            /\ UNCHANGED <<hvars, irvars, collected, outcome, features, expanded, bvars, done, lock, stack>>

\* The handles with their accessors.
NextAcc ==
    \/ CreateOwned
    \/ CreateLeaked
    \/ Clone
    \/ DropLocked
    \/ DropRelease
    \/ PtrRead
    \/ KeyRead

SpecAcc == Init /\ [][NextAcc]_vars

\* ------------------------------------------------ the capability interfaces
\* The impls! macro of crates/llvm-codegen-utils-core, over a backend that hands
\* out a fresh address for every object it allocates and interns types and
\* constants.  Operations that take a handle by value drop it when they return
\* (the instruction operations, before they call the backend).

\* enum ICmp
ICmpPreds == {"Eq", "Lt", "Lts"}
\* The backend's LLVMIntPredicate enumeration.
NativePreds ==
    {"LLVMIntEQ", "LLVMIntNE", "LLVMIntUGT", "LLVMIntUGE", "LLVMIntULT", "LLVMIntULE",
     "LLVMIntSGT", "LLVMIntSGE", "LLVMIntSLT", "LLVMIntSLE"}

\* A conversion that takes both orderings to the unsigned code.
IntPredicateUnsigned(a) ==
    CASE a = "Eq" -> "LLVMIntEQ"
      [] a = "Lt" -> "LLVMIntULT"
      [] a = "Lts" -> "LLVMIntULT"

\* impl From<ICmp> for LLVMIntPredicate
IntPredicate(a) ==
    CASE a = "Eq" -> "LLVMIntEQ"
      [] a = "Lt" -> "LLVMIntULT"
      [] a = "Lts" -> "LLVMIntSLT"

\* The names a caller gives (&CStr).
Names == {"n"}

\* default_insts!: per instruction, the kinds of its parameters.
InstTable ==
    [Alloca |-> <<"ty", "name">>,
     Load2 |-> <<"ty", "val", "name">>,
     StructGEP2 |-> <<"ty", "val", "idx", "name">>,
     Store |-> <<"val", "val">>,
     Add |-> <<"val", "val", "name">>,
     And |-> <<"val", "val", "name">>,
     Neg |-> <<"val", "name">>,
     Not |-> <<"val", "name">>,
     TruncOrBitCast |-> <<"val", "ty", "name">>,
     Mul |-> <<"val", "val", "name">>,
     Or |-> <<"val", "val", "name">>,
     Sub |-> <<"val", "val", "name">>,
     Xor |-> <<"val", "val", "name">>,
     ICmp |-> <<"pred", "val", "val", "name">>,
     Br |-> <<"bb">>,
     CondBr |-> <<"val", "bb", "bb">>]
InstOps == DOMAIN InstTable

\* Live handles of type LLHandle<'_, tag, ty>.
HandlesOf(ty, tag) ==
    {h \in BagToSet(hR) : created[h.key].ty = ty /\ created[h.key].key = tag}
\* The tag K of a handle.
TagOf(h) == created[h.key].key

\* The parameter types of the signatures.
CtxParam == HandlesOf("Context", "Normal")
ModParam == HandlesOf("Module", "Normal")
TyParam == HandlesOf("Type", "Normal")
\* A BB::new that took a Value of any tag.
FuncParamAnyTag == HandlesOf("Value", "Normal") \cup HandlesOf("Value", "FuncTag")
\* Self::Func<'b> = LLHandle<'b, FuncTag, LLVMValue>
FuncParam == HandlesOf("Value", "FuncTag")
\* <Self::ValKind as ValueKind>::Val<'_, Normal>
ValParam == HandlesOf("Value", "Normal")
\* impl<'a, K: 'a> Value<'a> for LLHandle<'a, K, LLVMValue>: any tag
AnyValue == HandlesOf("Value", "Normal") \cup HandlesOf("Value", "FuncTag")
BBParam == HandlesOf("BasicBlock", "Normal")
BuilderParam == HandlesOf("Builder", "Normal")

\* What may be passed for a parameter of an instruction, by its kind.
ParamChoices(kind) ==
    CASE kind = "ty" -> TyParam
      [] kind = "val" -> ValParam
      [] kind = "bb" -> BBParam
      [] kind = "pred" -> ICmpPreds
      [] kind = "idx" -> {0}
      [] kind = "name" -> Names

\* rest!: how a parameter is marshaled (|x| x.ptr(), |a| a.into(), |x| *x,
\* |x| x.as_ptr()).
Marshal(kind, a) ==
    CASE kind \in {"ty", "val", "bb"} -> a.val
      [] kind = "pred" -> IntPredicate(a)
      [] kind = "idx" -> a
      [] kind = "name" -> a

IsHandleKind(kind) == kind \in {"ty", "val", "bb"}

RECURSIVE ArgSeqs(_)
ArgSeqs(kinds) ==
    IF kinds = <<>> THEN {<<>>}
    ELSE {<<a>> \o r : a \in ParamChoices(Head(kinds)), r \in ArgSeqs(Tail(kinds))}

\* The handles among the arguments, in parameter order.
RECURSIVE HandleArgs(_, _)
HandleArgs(kinds, args) ==
    IF kinds = <<>> THEN <<>>
    ELSE (IF IsHandleKind(Head(kinds)) THEN <<Head(args)>> ELSE <<>>)
             \o HandleArgs(Tail(kinds), Tail(args))

\* A usize length, as four 16-bit limbs, the most significant first: Vec::len()
\* of a list of n < 2^16 elements.
UsizeOf(n) == <<0, 0, 0, n>>
\* The largest value of a limb.
LimbMax == 65535

\* A conversion that keeps the low 32 bits (`as u32`).
TruncateU32(u) == [ok |-> TRUE, val |-> <<u[3], u[4]>>]

\* args.len().try_into(): u32::try_from(usize) is Ok when the length is below
\* 2^32, and the Ok value is the length.
TryIntoU32(u) ==
    IF u[1] = 0 /\ u[2] = 0
    THEN [ok |-> TRUE, val |-> <<u[3], u[4]>>]
    ELSE [ok |-> FALSE, val |-> <<0, 0>>]

\* The operations with an argument list, written out by hand in impls!.
AggOps == {"call", "gep2"}
\* The lists of at most n Values an `args` iterator may yield.
RECURSIVE ValSeqs(_)
ValSeqs(n) ==
    IF n = 0 THEN {<<>>}
    ELSE ValSeqs(n - 1) \cup {<<a>> \o r : a \in ValParam, r \in {q \in ValSeqs(n - 1) : Len(q) = n - 1}}

\* Distinct live handles are passed: no handle more often than it is held.
Held(hs) ==
    \A i \in 1..Len(hs) :
        Cardinality({j \in 1..Len(hs) : hs[j] = hs[i]}) <= CopiesIn(hs[i], hR)

\* The backend allocates every object at an address of its own, and the
\* allocator every key box: the model names the k-th object or box that one
\* operation makes by that operation, so that runs that differ only in the
\* order of unrelated calls reach the same state.
OpIndex(by) ==
    CASE by = "user" -> 0
      [] by = "create_mod" -> 1
      [] by = "int_ty" -> 2
      [] by = "const_int" -> 3
      [] by = "function" -> 4
      [] by = "new" -> 5
      [] by = "new_in_ctx" -> 6
      [] by = "ctx" -> 7
      [] by = "mod" -> 8
      [] by = "inst" -> 9
      [] by = "ptr_ty" -> 10
      [] by = "fun_ty" -> 11
      [] by = "struct_ty" -> 12
      [] by = "param" -> 13
\* How often one run calls an operation.
CallCap(by) ==
    CASE by = "new" -> MaxBlocks
      [] by = "inst" -> MaxInsts
      [] OTHER -> MaxPerOp
Slots(by) == {OpIndex(by) * SlotStride + j : j \in 1..CallCap(by)}
FreeSlots(by) == Slots(by) \ Creations
CanCall(by) == FreeSlots(by) # {}
\* The key box (and, for an operation that allocates, the address) of the next call.
Slot(by) == CHOOSE c \in FreeSlots(by) : \A d \in FreeSlots(by) : c <= d

ObjsOf(kind) == {a \in DOMAIN objs : objs[a].kind = kind}
Obj(kind, parent, isfn, via) ==
    [kind |-> kind, parent |-> parent, isfn |-> isfn, via |-> via, sig |-> <<>>, name |-> ""]
\* An object the backend was given a name for (name.as_ptr()).
Named(o, name) == [o EXCEPT !.name = name]
\* A type the backend interns: by its context, its shape and the types it is made of.
TyObj(ctx, shape, sig) == [Obj("Type", ctx, FALSE, shape) EXCEPT !.sig = sig]
TypeAt(ctx, shape, sig) ==
    {a \in ObjsOf("Type") : objs[a].parent = ctx /\ objs[a].via = shape /\ objs[a].sig = sig}

\* No operation is running.
Quiet == todo = <<>> /\ deferred = <<>> /\ pend = EmptyBag
\* The caller holds at most MaxIRHandles handles between two operations: an
\* operation that takes n of them by value may return one more.
CanHoldAfter(n) == Live - n < MaxIRHandles
CanHold == CanHoldAfter(0)

\* A Context handle, wrapped by the caller with from_raw_parts: the crate has no
\* constructor for one.
UserContextDo(c) ==
    /\ objs' = MapInsert(objs, c, Obj("Context", 0, FALSE, "-"))
    /\ DoCreateOwned(c, c, "Normal", "Context", "user")
    /\ UNCHANGED <<pos, insts, todo, deferred>>
UserContext ==
    /\ Quiet /\ CanHold /\ CanCall("user")
    /\ UserContextDo(Slot("user"))
    /\ UNCHANGED gvars

\* Mod::create_mod(a, &ctx)
CreateModDo(hc, name, c) ==
    /\ objs' = MapInsert(objs, c, Named(Obj("Module", hc.val, FALSE, TagOf(hc)), name))
    /\ DoCreateOwned(c, c, "Normal", "Module", "create_mod")
    /\ UNCHANGED <<pos, insts, todo, deferred>>
CreateMod ==
    \E hc \in CtxParam, name \in Names :
        /\ Quiet /\ CanHold /\ CanCall("create_mod")
        /\ CreateModDo(hc, name, Slot("create_mod"))
        /\ UNCHANGED gvars

\* Mod::ctx(&self): LLVMGetModuleContext, wrapped by leaked.
ModCtx ==
    \E hm \in ModParam :
        /\ Quiet /\ CanHold /\ CanCall("ctx")
        /\ DoCreateLeaked(Slot("ctx"), objs[hm.val].parent, "Normal", "Context", "ctx")
        /\ UNCHANGED irvars
        /\ UNCHANGED gvars

\* Value::mod(&self): LLVMGetGlobalParent, wrapped by leaked.  The backend
\* aborts on a value that is no global.
ValueMod ==
    \E hv \in AnyValue :
        /\ Quiet /\ CanHold /\ CanCall("mod")
        /\ objs[hv.val].isfn
        /\ DoCreateLeaked(Slot("mod"), objs[hv.val].parent, "Normal", "Module", "mod")
        /\ UNCHANGED irvars
        /\ UNCHANGED gvars

\* Ty::int_ty(ctx, size): the context's interned integer type.
IntTyDo(hc, c) ==
    LET old == TypeAt(hc.val, "Normal", <<>>)
        addr == IF old = {} THEN c ELSE CHOOSE a \in old : TRUE
    IN  /\ objs' = IF old = {} THEN MapInsert(objs, c, Obj("Type", hc.val, FALSE, TagOf(hc)))
                   ELSE objs
        /\ DoCreateLeaked(c, addr, "Normal", "Type", "int_ty")
        /\ todo' = <<hc>>
        /\ UNCHANGED <<pos, insts, deferred>>
IntTy ==
    \E hc \in CtxParam :
        /\ Quiet /\ CanHoldAfter(1) /\ CanCall("int_ty")
        /\ IntTyDo(hc, Slot("int_ty"))
        /\ UNCHANGED gvars

\* Ty::ptr_ty(ctx, address_space): the context's interned pointer type.
PtrTy ==
    \E hc \in CtxParam :
        LET c == Slot("ptr_ty")
            old == TypeAt(hc.val, "ptr", <<>>)
            addr == IF old = {} THEN c ELSE CHOOSE a \in old : TRUE
        IN  /\ Quiet /\ CanHoldAfter(1) /\ CanCall("ptr_ty")
            /\ objs' = IF old = {} THEN MapInsert(objs, c, TyObj(hc.val, "ptr", <<>>)) ELSE objs
            /\ DoCreateLeaked(c, addr, "Normal", "Type", "ptr_ty")
            /\ todo' = <<hc>>
            /\ UNCHANGED <<pos, insts, deferred>>
            /\ UNCHANGED gvars

\* The lists of at most n Types a `params` / `fields` iterator may yield.
RECURSIVE TySeqs(_)
TySeqs(n) ==
    IF n = 0 THEN {<<>>}
    ELSE TySeqs(n - 1) \cup {<<a>> \o r : a \in TyParam, r \in {q \in TySeqs(n - 1) : Len(q) = n - 1}}
Ptrs_(hs) == [i \in 1..Len(hs) |-> hs[i].val]

\* Ty::fun_ty(self, params): LLVMFunctionType, wrapped by leaked.  The closure
\* of params.map drops each parameter as the Vec is collected, self is dropped
\* when the operation returns; no drop of a Type handle changes what leaked reads.
FunTyDo(hr, params, c) ==
    LET ctx == objs[hr.val].parent
        sig == <<hr.val>> \o Ptrs_(params)
        old == TypeAt(ctx, "fun", sig)
        addr == IF old = {} THEN c ELSE CHOOSE a \in old : TRUE
    IN  /\ TryIntoU32(UsizeOf(Len(params))).ok
        /\ objs' = IF old = {} THEN MapInsert(objs, c, TyObj(ctx, "fun", sig)) ELSE objs
        /\ DoCreateLeaked(c, addr, "Normal", "Type", "fun_ty")
        /\ todo' = params \o <<hr>>
        /\ UNCHANGED <<pos, insts, deferred>>
FunTy ==
    \E hr \in TyParam :
        \E params \in TySeqs(MaxArgs) :
            /\ Quiet /\ CanCall("fun_ty")
            /\ Held(<<hr>> \o params) /\ CanHoldAfter(1 + Len(params))
            /\ FunTyDo(hr, params, Slot("fun_ty"))
            /\ UNCHANGED gvars

\* Ty::struct_ty(ctx, fields, packed): LLVMStructTypeInContext, wrapped by
\* leaked; the fields are dropped as they are collected, ctx on return.
StructTy ==
    \E hc \in CtxParam :
        \E fields \in TySeqs(MaxArgs) :
            LET c == Slot("struct_ty")
                sig == Ptrs_(fields)
                old == TypeAt(hc.val, "struct", sig)
                addr == IF old = {} THEN c ELSE CHOOSE a \in old : TRUE
            IN  /\ Quiet /\ CanCall("struct_ty")
                /\ Held(<<hc>> \o fields) /\ CanHoldAfter(1 + Len(fields))
                /\ TryIntoU32(UsizeOf(Len(fields))).ok
                /\ objs' = IF old = {} THEN MapInsert(objs, c, TyObj(hc.val, "struct", sig)) ELSE objs
                /\ DoCreateLeaked(c, addr, "Normal", "Type", "struct_ty")
                /\ todo' = fields \o <<hc>>
                /\ UNCHANGED <<pos, insts, deferred>>
                /\ UNCHANGED gvars

\* ValueKind::const_int(ty, n, sext): the type's interned constant.
ConstIntDo(ht, c) ==
    LET old == {a \in ObjsOf("Value") : objs[a].via = "const" /\ objs[a].parent = ht.val}
        addr == IF old = {} THEN c ELSE CHOOSE a \in old : TRUE
    IN  /\ objs' = IF old = {} THEN MapInsert(objs, c, Obj("Value", ht.val, FALSE, "const"))
                   ELSE objs
        /\ DoCreateLeaked(c, addr, "Normal", "Value", "const_int")
        /\ todo' = <<ht>>
        /\ UNCHANGED <<pos, insts, deferred>>
ConstInt ==
    \E ht \in TyParam :
        /\ Quiet /\ CanHoldAfter(1) /\ CanCall("const_int")
        /\ ConstIntDo(ht, Slot("const_int"))
        /\ UNCHANGED gvars

\* ValueKind::function(mod, name, ty): LLVMAddFunction, wrapped by leaked.
FunctionDo(hm, name, ht, c) ==
    /\ objs' = MapInsert(objs, c, Named(Obj("Value", hm.val, TRUE, TagOf(hm)), name))
    /\ DoCreateLeaked(c, c, "FuncTag", "Value", "function")
    /\ todo' = <<ht, hm>>
    /\ UNCHANGED <<pos, insts, deferred>>
Function ==
    \E hm \in ModParam, ht \in TyParam, name \in Names :
        /\ Quiet /\ CanHoldAfter(2) /\ CanCall("function")
        /\ FunctionDo(hm, name, ht, Slot("function"))
        /\ UNCHANGED gvars

\* A BB::new that makes a block in no function.
BBNewDetached(hf, name, c) ==
    /\ objs' = MapInsert(objs, c, Named(Obj("BasicBlock", 0, FALSE, TagOf(hf)), name))
    /\ DoCreateLeaked(c, c, "Normal", "BasicBlock", "new")
    /\ todo' = <<hf>>
    /\ UNCHANGED <<pos, insts, deferred>>

\* BB::new(f, name): LLVMAppendBasicBlock, wrapped by leaked.
BBNewDo(hf, name, c) ==
    /\ objs' = MapInsert(objs, c, Named(Obj("BasicBlock", hf.val, FALSE, TagOf(hf)), name))
    /\ DoCreateLeaked(c, c, "Normal", "BasicBlock", "new")
    /\ todo' = <<hf>>
    /\ UNCHANGED <<pos, insts, deferred>>
BBNew ==
    \E hf \in FuncParam, name \in Names :
        /\ Quiet /\ CanHoldAfter(1) /\ CanCall("new")
        /\ BBNewDo(hf, name, Slot("new"))
        /\ UNCHANGED gvars

\* Builder::new_in_ctx(ctx): LLVMCreateBuilderInContext, wrapped by from_raw_parts.
NewInCtxDo(hc, c) ==
    /\ objs' = MapInsert(objs, c, Obj("Builder", hc.val, FALSE, TagOf(hc)))
    /\ pos' = MapInsert(pos, c, 0)
    /\ DoCreateOwned(c, c, "Normal", "Builder", "new_in_ctx")
    /\ todo' = <<hc>>
    /\ UNCHANGED <<insts, deferred>>
NewInCtx ==
    \E hc \in CtxParam :
        /\ Quiet /\ CanHoldAfter(1) /\ CanCall("new_in_ctx")
        /\ NewInCtxDo(hc, Slot("new_in_ctx"))
        /\ UNCHANGED gvars

\* Builder::continue(&self, bb): LLVMPositionBuilderAtEnd.
ContinueDo(hb, hbb) ==
    /\ pos' = [pos EXCEPT ![hb.val] = hbb.val]
    /\ todo' = <<hbb>>
    /\ UNCHANGED <<objs, insts, deferred>>
    /\ UNCHANGED hvars
Continue ==
    \E hb \in BuilderParam, hbb \in BBParam :
        /\ Quiet
        /\ ContinueDo(hb, hbb)
        /\ UNCHANGED gvars

\* A default_insts! operation, up to its call of the backend: rest! marshals the
\* arguments, which drops the handles among them.
InstDo(hb, op, args) ==
    LET kinds == InstTable[op]
        hs == HandleArgs(kinds, args)
    IN  /\ todo' = hs
        /\ deferred' =
               <<[op |-> op, bld |-> hb.val,
                  raw |-> [i \in 1..Len(kinds) |-> Marshal(kinds[i], args[i])],
                  tags |-> [i \in 1..Len(hs) |-> TagOf(hs[i])],
                  pred |-> IF op = "ICmp" THEN args[1] ELSE "-",
                  name |-> IF \E i \in 1..Len(kinds) : kinds[i] = "name" THEN args[Len(args)] ELSE "",
                  after |-> <<>>]>>
        /\ UNCHANGED <<objs, pos, insts>>
        /\ UNCHANGED hvars
Inst ==
    \E hb \in BuilderParam, op \in InstOps :
        \E args \in ArgSeqs(InstTable[op]) :
            /\ Quiet /\ CanCall("inst")
            /\ Held(HandleArgs(InstTable[op], args))
            /\ CanHoldAfter(Len(HandleArgs(InstTable[op], args)))
            /\ InstDo(hb, op, args)
            /\ UNCHANGED gvars

\* The call LLVMBuild<op>(self.ptr(), ...) and leaked(res, Normal).
InstBuildDo(c) ==
    /\ todo = <<>> /\ pend = EmptyBag /\ deferred # <<>>
    /\ LET d == deferred[1] IN
        /\ objs' = MapInsert(objs, c, Named(Obj("Value", pos[d.bld], FALSE, "inst"), d.name))
        /\ insts' = Append(insts, [op |-> d.op, bld |-> d.bld, bb |-> pos[d.bld],
                                   raw |-> d.raw, tags |-> d.tags, pred |-> d.pred,
                                   res |-> c])
        /\ DoCreateLeaked(c, c, "Normal", "Value", "inst")
    /\ deferred' = <<>>
    /\ todo' = deferred[1].after
    /\ UNCHANGED pos
InstBuild ==
    /\ deferred # <<>>
    /\ InstBuildDo(Slot("inst"))
    /\ UNCHANGED gvars

\* Builder::call and Builder::gep2, up to the call of the backend: the closure
\* of args.map drops each argument as the Vec is collected; resty and r#fn /
\* ptr2 stay bound until the operation returns, and are then dropped in the
\* reverse of their declaration.
CallGep ==
    \E hb \in BuilderParam, op \in AggOps, ht \in TyParam, hf \in ValParam :
        \E args \in ValSeqs(MaxArgs), name \in Names :
            /\ Quiet /\ CanCall("inst")
            /\ Held(<<ht, hf>> \o args) /\ CanHoldAfter(2 + Len(args))
            /\ todo' = args
            /\ deferred' =
                   <<[op |-> op, bld |-> hb.val,
                      raw |-> <<ht.val, hf.val, [i \in 1..Len(args) |-> args[i].val],
                                TryIntoU32(UsizeOf(Len(args))).val, name>>,
                      tags |-> [i \in 1..(2 + Len(args)) |-> TagOf((<<ht, hf>> \o args)[i])],
                      pred |-> "-",
                      name |-> name,
                      after |-> <<hf, ht>>]>>
            /\ UNCHANGED <<objs, pos, insts>>
            /\ UNCHANGED hvars
            /\ UNCHANGED gvars

\* The running operation drops its next by-value argument.
DropArg ==
    /\ todo # <<>> /\ pend = EmptyBag
    /\ DoDropLocked(Head(todo))
    /\ todo' = Tail(todo)
    /\ UNCHANGED <<objs, pos, insts, deferred>>
    /\ UNCHANGED gvars

\* The caller clones a handle it holds.
UserCloneDo(h) ==
    /\ DoClone(h)
    /\ UNCHANGED <<cloned, irvars>>
UserClone ==
    \E h \in BagToSet(hR) :
        /\ Quiet /\ CanHold
        /\ UserCloneDo(h)
        /\ UNCHANGED gvars

\* The caller drops a handle it holds.
UserDrop ==
    \E h \in BagToSet(hR) :
        /\ Quiet
        /\ DoDropLocked(h)
        /\ UNCHANGED irvars
        /\ UNCHANGED gvars

NextIR ==
    \/ UserContext
    \/ CreateMod
    \/ ModCtx
    \/ ValueMod
    \/ IntTy
    \/ ConstInt
    \/ Function
    \/ BBNew
    \/ NewInCtx
    \/ Continue
    \/ Inst
    \/ InstBuild
    \/ CallGep
    \/ DropArg
    \/ DropRelease
    \/ UserClone
    \/ UserDrop

SpecIR == Init /\ [][NextIR]_vars

\* The operations of impl Ty, with a Context the caller wrapped.
NextTy ==
    \/ UserContext
    \/ IntTy
    \/ PtrTy
    \/ FunTy
    \/ StructTy
    \/ DropArg
    \/ DropRelease
    \/ UserClone
    \/ UserDrop

SpecTy == Init /\ [][NextTy]_vars

\* ------------------------------------------------- an end-to-end program
\* A caller builds one function of two blocks: a Context, Module "m", the type
\* i32, the type (i32) -> i32, Function "f", the blocks "entry" and "second", a
\* Builder positioned at entry, Add(argument, const_int(1, false), "r") and
\* Br(second).  The calls are made in any order their arguments allow; the
\* caller clones a handle for each by-value use it still has to make, and keeps
\* one handle on the Context, the Module, the Function and the Builder.

Steps ==
    {"ctx", "mod", "i32", "fty", "fn", "entry", "second", "bld", "pos", "param", "one",
     "add", "br"}
\* The j-th key box (and address) an operation makes.
At(by, j) == OpIndex(by) * SlotStride + j
\* What each call of the program makes.
Made(step) ==
    CASE step = "ctx" -> At("user", 1)
      [] step = "mod" -> At("create_mod", 1)
      [] step = "i32" -> At("int_ty", 1)
      [] step = "fty" -> At("fun_ty", 1)
      [] step = "fn" -> At("function", 1)
      [] step = "entry" -> At("new", 1)
      [] step = "second" -> At("new", 2)
      [] step = "bld" -> At("new_in_ctx", 1)
      [] step = "param" -> At("param", 1)
      [] step = "one" -> At("const_int", 1)
      [] step = "add" -> At("inst", 1)
      [] step = "br" -> At("inst", 2)
      [] OTHER -> 0
\* The handle a call returned.
H(step) == [val |-> created[Made(step)].ptr, key |-> Made(step)]
\* The calls that take the handle of a step by value, with multiplicity.
Consumers(step) ==
    CASE step = "ctx" -> <<"i32", "bld">>
      [] step = "mod" -> <<"fn">>
      [] step = "i32" -> <<"fty", "fty", "one">>
      [] step = "fty" -> <<"fn">>
      [] step = "fn" -> <<"entry", "second">>
      [] step = "entry" -> <<"pos">>
      [] step = "second" -> <<"br">>
      [] step = "param" -> <<"add">>
      [] step = "one" -> <<"add">>
      [] OTHER -> <<>>
UsesLeft(step) == Len(SelectSeq(Consumers(step), LAMBDA u : u \notin done))
\* The handles the caller holds on to.
Keep(step) == IF step \in {"ctx", "mod", "fn", "bld", "add", "br"} THEN 1 ELSE 0
\* The caller holds n handles of a step to give away.
Spare(step, n) ==
    /\ Made(step) \in Creations
    /\ CopiesIn(H(step), hR) >= n + Keep(step)
\* The program makes a call.
Does(step) ==
    /\ Quiet
    /\ step \notin done
    /\ done' = done \cup {step}
    /\ UNCHANGED <<collected, outcome, features, expanded, bvars, avars>>

\* LLHandle::leaked(LLVMGetParam(f.ptr(), 0), Normal), by the caller: the crate
\* has no operation that returns a parameter of a function.
UserParamDo(hf, c) ==
    /\ objs' = MapInsert(objs, c, Obj("Value", hf.val, FALSE, "param"))
    /\ DoCreateLeaked(c, c, "Normal", "Value", "param")
    /\ UNCHANGED <<pos, insts, todo, deferred>>

E2EContext == Does("ctx") /\ UserContextDo(Made("ctx"))
E2EModule == Does("mod") /\ Spare("ctx", 0) /\ CreateModDo(H("ctx"), "m", Made("mod"))
E2EIntTy == Does("i32") /\ Spare("ctx", 1) /\ IntTyDo(H("ctx"), Made("i32"))
E2EFunTy == Does("fty") /\ Spare("i32", 2) /\ FunTyDo(H("i32"), <<H("i32")>>, Made("fty"))
E2EFunction ==
    /\ Does("fn") /\ Spare("mod", 1) /\ Spare("fty", 1)
    /\ FunctionDo(H("mod"), "f", H("fty"), Made("fn"))
E2EEntry == Does("entry") /\ Spare("fn", 1) /\ BBNewDo(H("fn"), "entry", Made("entry"))
E2ESecond ==
    /\ Does("second") /\ "entry" \in done /\ Spare("fn", 1)
    /\ BBNewDo(H("fn"), "second", Made("second"))
E2EBuilder == Does("bld") /\ Spare("ctx", 1) /\ NewInCtxDo(H("ctx"), Made("bld"))
E2EPosition ==
    /\ Does("pos") /\ Spare("bld", 0) /\ Spare("entry", 1)
    /\ ContinueDo(H("bld"), H("entry"))
E2EParam == Does("param") /\ Spare("fn", 0) /\ UserParamDo(H("fn"), Made("param"))
E2EOne == Does("one") /\ Spare("i32", 1) /\ ConstIntDo(H("i32"), Made("one"))
E2EAdd ==
    /\ Does("add") /\ "pos" \in done /\ Spare("bld", 0)
    /\ Spare("param", 1) /\ Spare("one", 1)
    /\ InstDo(H("bld"), "Add", <<H("param"), H("one"), "r">>)
E2EBr ==
    /\ Does("br") /\ "add" \in done /\ Spare("bld", 0) /\ Spare("second", 1)
    /\ InstDo(H("bld"), "Br", <<H("second")>>)
\* The backend call of the instruction operation that is running.
E2EInstBuild ==
    /\ deferred # <<>>
    /\ InstBuildDo(Made(IF "br" \in done THEN "br" ELSE "add"))
    /\ UNCHANGED gvars
\* The caller clones a handle it has to give away and keep.
E2EClone ==
    \E step \in Steps :
        /\ Quiet
        /\ Made(step) \in Creations
        /\ H(step) \in BagToSet(hR)
        /\ CopiesIn(H(step), hR) < Keep(step) + UsesLeft(step)
        /\ UserCloneDo(H(step))
        /\ UNCHANGED gvars

NextE2E ==
    \/ E2EContext
    \/ E2EModule
    \/ E2EIntTy
    \/ E2EFunTy
    \/ E2EFunction
    \/ E2EEntry
    \/ E2ESecond
    \/ E2EBuilder
    \/ E2EPosition
    \/ E2EParam
    \/ E2EOne
    \/ E2EAdd
    \/ E2EBr
    \/ E2EInstBuild
    \/ E2EClone
    \/ DropArg
    \/ DropRelease

SpecE2E == Init /\ [][NextE2E]_vars

\* ------------------------------------------------------- lengths of lists
\* call, gep2, fun_ty and struct_ty collect an iterator into a Vec and hand the
\* backend its length as a 32-bit count.

ListOps == {"call", "gep2", "fun_ty", "struct_ty"}
\* The backend function each of them calls.
BackendOf(op) ==
    CASE op = "call" -> "LLVMBuildCall2"
      [] op = "gep2" -> "LLVMBuildGEP2"
      [] op = "fun_ty" -> "LLVMFunctionType"
      [] op = "struct_ty" -> "LLVMStructTypeInContext"
Limbs == {0, 1, LimbMax}
\* Lengths a Vec may have on a 64-bit target.
Usizes == {<<a, b, c, d>> : a \in Limbs, b \in Limbs, c \in Limbs, d \in Limbs}

\* args.map(|a| a.ptr()).collect::<Vec<_>>()
Collect ==
    \E op \in ListOps, n \in Usizes :
        /\ collected = <<>> /\ outcome = <<>>
        /\ collected' = <<[op |-> op, len |-> n]>>
        /\ UNCHANGED <<outcome, features, expanded>>
        /\ UNCHANGED <<hvars, irvars, done, avars, bvars>>

\* args.len().try_into().unwrap(), an argument of the call of the backend: the
\* unwrap panics before the call when the conversion failed.
PassLen ==
    /\ collected # <<>> /\ outcome = <<>>
    /\ LET r == TryIntoU32(collected[1].len) IN
           outcome' = <<IF r.ok
                        THEN [panic |-> FALSE, backend |-> BackendOf(collected[1].op),
                              count |-> r.val]
                        ELSE [panic |-> TRUE, backend |-> "-", count |-> r.val]>>
    /\ UNCHANGED <<collected, features, expanded>>
    /\ UNCHANGED <<hvars, irvars, done, avars, bvars>>

NextLen == Collect \/ PassLen

SpecLen == Init /\ [][NextLen]_vars

\* ------------------------------------------------------- version dispatch
\* vers! of llvm-codegen-utils-version-macros, and its use vers!({} impls).

\* The lines of vers!, in order: the feature each is compiled under and the
\* namespace it names.
VersLines ==
    <<[feature |-> "llvm-sys-190", ns |-> "llvm_sys_190"],
      [feature |-> "llvm-sys-180", ns |-> "llvm_sys_180"],
      [feature |-> "llvm-sys-200", ns |-> "llvm_sys_200"],
      [feature |-> "llvm-sys-210", ns |-> "llvm_sys_210"]>>
Features == {VersLines[i].feature : i \in 1..Len(VersLines)}
\* Token lists and macro names a caller may pass.
Contents == {<<>>, <<"a">>, <<"a", "b">>}
Macros == {"impls", "m"}

\* The expansion of vers!({contents} m): one item per line.
Vers(contents, m) ==
    [i \in 1..Len(VersLines) |->
        [cfg |-> VersLines[i].feature, macro |-> m, ns |-> VersLines[i].ns,
         contents |-> contents]]

\* A cfg that keeps every item.
CfgKeepAll(enabled, items) == items

\* #[cfg(feature = ...)]: the items whose feature is enabled stay.
Cfg(enabled, items) ==
    LET Enabled(it) == it.cfg \in enabled IN SelectSeq(items, Enabled)

\* impls!($l {}): `use $l as llvm_sys` and default_insts!('a @ llvm_sys).
Impls(l) == [llvm_sys |-> l, table |-> InstTable, lists |-> AggOps]

\* A build: the features enabled and the vers! call compiled.
Build ==
    \E en \in SUBSET Features, contents \in Contents, m \in Macros :
        /\ features = <<>>
        /\ features' = <<[enabled |-> en, contents |-> contents, macro |-> m]>>
        /\ UNCHANGED <<collected, outcome, expanded>>
        /\ UNCHANGED <<hvars, irvars, done, avars, bvars>>

\* Macro expansion and cfg stripping of the vers! call.
Expand ==
    /\ features # <<>> /\ expanded = <<>>
    /\ expanded' = <<Cfg(features[1].enabled, Vers(features[1].contents, features[1].macro))>>
    /\ UNCHANGED <<collected, outcome, features>>
    /\ UNCHANGED <<hvars, irvars, done, avars, bvars>>

NextVers == Build \/ Expand

SpecVers == Init /\ [][NextVers]_vars

\* ------------------------------------------------ the traits' type bindings
\* The implementation sets as the compiler sees them: per implementing type,
\* the traits it implements and the associated types it binds. A type is a
\* name and the llvm_sys namespace of its impls! expansion; types are taken up
\* to their lifetimes and tags: "HValue" is LLHandle<'_, K, llvm_sys::LLVMValue>.

MaxMiswired == 2
\* The namespaces of the first two lines of vers!.
WiredVersions == {VersLines[i].ns : i \in 1..2}
ImplNames == {"HContext", "HModule", "HType", "HValue", "LLVMValue", "HBasicBlock", "HBuilder"}
ImplTypes == ImplNames \X WiredVersions
NoType == <<"-", "-">>

\* The traits each type of impls! implements.
TraitsOf ==
    [HContext |-> {"Ctx"}, HModule |-> {"Mod"}, HType |-> {"Ty"},
     HValue |-> {"Value", "Func"}, LLVMValue |-> {"ValueKind"},
     HBasicBlock |-> {"BB"}, HBuilder |-> {"Builder"}]

\* The associated types impls!(l {}) binds.
ImplSet(l) ==
    [HContext |-> <<>>,
     HModule |-> [Ctx |-> <<"HContext", l>>],
     HType |-> [Ctx |-> <<"HContext", l>>],
     HValue |-> [Kind |-> <<"LLVMValue", l>>, Mod |-> <<"HModule", l>>],
     LLVMValue |-> [Val |-> <<"HValue", l>>, Mod |-> <<"HModule", l>>,
                    Func |-> <<"HValue", l>>, Ty |-> <<"HType", l>>],
     HBasicBlock |-> [Func |-> <<"HValue", l>>],
     HBuilder |-> [BB |-> <<"HBasicBlock", l>>, ValKind |-> <<"LLVMValue", l>>,
                   Ty |-> <<"HType", l>>, Ctx |-> <<"HContext", l>>,
                   Mod |-> <<"HModule", l>>]]

\* The implementation sets of a build with every version of WiredVersions.
AllImplSets == [T \in ImplTypes |-> ImplSet(T[2])[T[1]]]

\* The bindings of an implementation set, as <<type name, associated type>>.
Bindings ==
    {b \in ImplNames \X {"Ctx", "Kind", "Mod", "Val", "Func", "Ty", "BB", "ValKind"} :
        b[2] \in DOMAIN ImplSet("-")[b[1]]}

\* <T as Trait>::a, NoType where T binds no such type.
Assoc(w, T, a) == IF T \in DOMAIN w /\ a \in DOMAIN w[T] THEN w[T][a] ELSE NoType

\* T: Trait
Implements(T, trait) == T[1] \in DOMAIN TraitsOf /\ trait \in TraitsOf[T[1]]

\* The bounds of the traits with only `T: Trait` checked, no binding compared.
WellFormedTraitsOnly(w) ==
    \A l \in WiredVersions :
        /\ Implements(w[<<"HValue", l>>].Kind, "ValueKind")
        /\ Implements(w[<<"HValue", l>>].Mod, "Mod")
        /\ Implements(w[<<"LLVMValue", l>>].Mod, "Mod")
        /\ Implements(w[<<"LLVMValue", l>>].Val, "Value")
        /\ Implements(w[<<"LLVMValue", l>>].Func, "Func")
        /\ Implements(w[<<"LLVMValue", l>>].Ty, "Ty")
        /\ Implements(w[<<"HModule", l>>].Ctx, "Ctx")
        /\ Implements(w[<<"HType", l>>].Ctx, "Ctx")
        /\ Implements(w[<<"HBasicBlock", l>>].Func, "Func")
        /\ Implements(w[<<"HBuilder", l>>].BB, "BB")
        /\ Implements(w[<<"HBuilder", l>>].ValKind, "ValueKind")
        /\ Implements(w[<<"HBuilder", l>>].Mod, "Mod")
        /\ Implements(w[<<"HBuilder", l>>].Ty, "Ty")
        /\ Implements(w[<<"HBuilder", l>>].Ctx, "Ctx")

\* The bounds the traits put on the associated types of their impls: what the
\* compiler checks of the implementation sets.
WellFormed(w) ==
    \A l \in WiredVersions :
        LET value == w[<<"HValue", l>>]
            kind == w[<<"LLVMValue", l>>]
            builder == w[<<"HBuilder", l>>]
        IN  \* Value: Kind: ValueKind<Val = Self, Mod = Self::Mod>, Mod: Mod
            /\ Implements(value.Kind, "ValueKind")
            /\ Assoc(w, value.Kind, "Val") = <<"HValue", l>>
            /\ Assoc(w, value.Kind, "Mod") = value.Mod
            /\ Implements(value.Mod, "Mod")
            \* ValueKind: Mod: Mod, Val: Value<Kind = Self, Mod = Self::Mod>,
            \* Func: Func<Kind = Self, Mod = Self::Mod>, Ty: Ty
            /\ Implements(kind.Mod, "Mod")
            /\ Implements(kind.Val, "Value")
            /\ Assoc(w, kind.Val, "Kind") = <<"LLVMValue", l>>
            /\ Assoc(w, kind.Val, "Mod") = kind.Mod
            /\ Implements(kind.Func, "Func")
            /\ Assoc(w, kind.Func, "Kind") = <<"LLVMValue", l>>
            /\ Assoc(w, kind.Func, "Mod") = kind.Mod
            /\ Implements(kind.Ty, "Ty")
            \* Mod: Ctx: Ctx; Ty: Ctx: Ctx; BB: Func: Func
            /\ Implements(w[<<"HModule", l>>].Ctx, "Ctx")
            /\ Implements(w[<<"HType", l>>].Ctx, "Ctx")
            /\ Implements(w[<<"HBasicBlock", l>>].Func, "Func")
            \* Builder: BB: BB<Func: Value<Kind = Self::ValKind>>
            /\ Implements(builder.BB, "BB")
            /\ Implements(Assoc(w, builder.BB, "Func"), "Value")
            /\ Assoc(w, Assoc(w, builder.BB, "Func"), "Kind") = builder.ValKind
            \* Builder: ValKind: ValueKind<Ty = Self::Ty, Mod = Self::Mod>
            /\ Implements(builder.ValKind, "ValueKind")
            /\ Assoc(w, builder.ValKind, "Ty") = builder.Ty
            /\ Assoc(w, builder.ValKind, "Mod") = builder.Mod
            \* Builder: Mod: Mod<Ctx = Self::Ctx>, Ty: Ty, Ctx: Ctx
            /\ Implements(builder.Mod, "Mod")
            /\ Assoc(w, builder.Mod, "Ctx") = builder.Ctx
            /\ Implements(builder.Ty, "Ty")
            /\ Implements(builder.Ctx, "Ctx")

\* The implementation sets written, that of the first line of vers! with up
\* to MaxMiswired bindings other than those of the source.
Wire ==
    /\ wired = <<>>
    /\ \E bs \in {c \in SUBSET Bindings : Cardinality(c) <= MaxMiswired} :
        \E ts \in [bs -> ImplTypes] :
            /\ wired' = <<[T \in ImplTypes |->
                             [a \in DOMAIN AllImplSets[T] |->
                                 IF T[2] = VersLines[1].ns /\ <<T[1], a>> \in bs
                                 THEN ts[<<T[1], a>>]
                                 ELSE AllImplSets[T][a]]]>>
    /\ UNCHANGED <<checked, text, written>>
    /\ UNCHANGED <<hvars, irvars, collected, outcome, features, expanded, done, avars>>

\* The compiler checks the bounds of the traits.
Compile ==
    /\ wired # <<>> /\ checked = <<>>
    /\ checked' = <<WellFormed(wired[1])>>
    /\ UNCHANGED <<wired, text, written>>
    /\ UNCHANGED <<hvars, irvars, collected, outcome, features, expanded, done, avars>>

NextWire == Wire \/ Compile

SpecWire == Init /\ [][NextWire]_vars

\* ----------------------------------------------------- the maintenance tool
\* llvm-codegen-utils-maintenance: the files it reads and writes are sequences
\* of lines, a line is a sequence of tokens, and a token is a marker, a piece
\* of generated text or other text. Markers are whole tokens: "gen" of a kind
\* is `<!-- GEN kind -->` in a documented file and `# GEN kind` in a Cargo.toml,
\* "resume" is `<!-- RESUME -->` or `# RESUME`, "doc" is a leading `//! `.

MaxCargoLines == 4
MaxDocLines == 3

\* The version table: LLVM version identifier and llvm-sys version.
LLVMS == <<<<"190", "191">>, <<"180", "181">>, <<"200", "201">>, <<"210", "211">>>>

\* The feature list in the documentation of llvm-codegen-utils-core.
CoreDocs ==
    <<<<"llvm-sys-190", "LLVM 19">>, <<"llvm-sys-180", "LLVM 18">>,
      <<"llvm-sys-200", "LLVM 20">>, <<"llvm-sys-210", "LLVM 21">>>>

Tok(k, v) == [k |-> k, v |-> v]
Flat(ss) ==
    LET RECURSIVE F(_)
        F(n) == IF n = 0 THEN <<>> ELSE F(n - 1) \o ss[n]
    IN  F(Len(ss))
First(s, P(_)) ==
    LET hits == {i \in 1..Len(s) : P(s[i])}
    IN  IF hits = {} THEN 0 ELSE CHOOSE i \in hits : \A j \in hits : i <= j

\* str.starts_with(p)
StartsWith(str, p) == Len(str) >= Len(p) /\ SubSeq(str, 1, Len(p)) = p
\* &version_id[..version_id.len() - 1]
Major(version_id) == SubSeq(version_id, 1, Len(version_id) - 1)

\* A generator that leaves out the entries after the first two.
GenVersFirstTwo(table) ==
    [i \in 1..(IF Len(table) > 2 THEN 2 ELSE Len(table)) |->
        [feature |-> "llvm-sys-" \o table[i][1], ns |-> "llvm_sys_" \o table[i][1]]]

\* The lines of vers!: per entry of the table the feature of its cfg and the
\* identifier it passes.
GenVers(table) ==
    [i \in 1..Len(table) |->
        [feature |-> "llvm-sys-" \o table[i][1], ns |-> "llvm_sys_" \o table[i][1]]]

generate_llvm_version_table(table) ==
    <<<<Tok("head", <<"LLVM Version", "Feature Flag", "llvm-sys Version">>)>>,
      <<Tok("head", <<"-", "-", "-">>)>>>>
    \o [i \in 1..Len(table) |->
           <<Tok("row", <<"LLVM " \o Major(table[i][1]), "llvm-sys-" \o table[i][1],
                          "^" \o table[i][2]>>)>>]

generate_llvm_version_list(table) ==
    Tok("list", [i \in 1..Len(table) |-> Major(table[i][1])])

\* The lines of the bullet list; joined by "\n", so no line for an empty table.
generate_feature_flags_doc(table) ==
    [i \in 1..Len(table) |->
        <<Tok("doc", <<>>),
          Tok("flag", <<"llvm-sys-" \o table[i][1], "LLVM " \o Major(table[i][1])>>)>>]

\* The version tables the tool is run with: sequences of entries of LLVMS
\* without repetition.
Tables ==
    {t \in UNION {[1..n -> 1..Len(LLVMS)] : n \in 0..Len(LLVMS)} :
        \A i, j \in DOMAIN t : i # j => t[i] # t[j]}
TableOf(t) == [i \in DOMAIN t |-> LLVMS[t[i]]]

\* main, the generation of macros.rs: one line of vers! per entry.
WriteVers ==
    /\ text = <<>> /\ written = <<>>
    /\ \E t \in Tables :
           /\ text' = <<[tool |-> "vers", table |-> TableOf(t), file |-> <<>>,
                         deps |-> <<>>, ver |-> <<>>]>>
           /\ LET xs == GenVers(TableOf(t)) IN
                  written' = <<[i \in 1..Len(xs) |->
                                  <<Tok("cfg", <<xs[i].feature>>), Tok("call", <<xs[i].ns>>)>>]>>
    /\ UNCHANGED <<wired, checked>>
    /\ UNCHANGED <<hvars, irvars, collected, outcome, features, expanded, done, avars>>

\* What main writes after a `# GEN p` line of the workspace's Cargo.toml.
MainContent(p, table) ==
    IF StartsWith(p, "LLVM")
    THEN [i \in 1..Len(table) |->
             <<Tok("dep", <<"llvm-sys-" \o table[i][1], "version=^" \o table[i][2],
                            "package=llvm-sys">>)>>]
    ELSE <<>>

\* format!(".. {ver} .."): the lines the text takes when ver has line breaks.
Embed(pre, ver, post) ==
    [i \in 1..Len(ver) |->
        <<Tok("ver", <<IF i = 1 THEN pre ELSE "", ver[i],
                       IF i = Len(ver) THEN post ELSE "">>)>>]

\* The content with the lines of the LLVM kind for every kind.
CargoContentAllLLVM(p, table, deps, ver) ==
    [i \in 1..Len(table) |->
        <<Tok("dep", <<"llvm-sys-" \o table[i][1], "workspace=true", "optional=true">>)>>]

\* What cargo writes after a `# GEN p` line of a crate's Cargo.toml.
CargoContent(p, table, deps, ver) ==
    (IF StartsWith(p, "LLVM")
     THEN [i \in 1..Len(table) |->
              <<Tok("dep", <<"llvm-sys-" \o table[i][1], "workspace=true",
                             "optional=true">>)>>]
     ELSE <<>>)
    \o (IF StartsWith(p, "LL_FEATURES")
        THEN [i \in 1..Len(table) |->
                 <<Tok("feature",
                       <<"llvm-sys-" \o table[i][1], "dep:llvm-sys-" \o table[i][1]>>
                       \o [j \in 1..Len(deps) |-> deps[j] \o "/llvm-sys-" \o table[i][1]])>>]
        ELSE <<>>)
    \o (IF StartsWith(p, "LL_DEPS")
        THEN LET ds == deps \o <<"llvm-codegen-utils-version-macros">>
             IN  Flat([j \in 1..Len(ds) |->
                         Embed(ds[j] \o " = { version = ", ver,
                               ", path = ../" \o ds[j] \o ", package = px-" \o ds[j] \o " }")])
        ELSE <<>>)
    \o (IF StartsWith(p, "VERSION") THEN Embed("version = ", ver, "") ELSE <<>>)

\* The content after a `# GEN p` line under the tool and inputs of c.
Content(c, p) ==
    IF c.tool = "main" THEN MainContent(p, c.table)
    ELSE CargoContent(p, c.table, c.deps, c.ver)

IsGen(l) == l # <<>> /\ l[1].k = "gen"
IsResume(l) == l # <<>> /\ l[1].k = "resume"

\* The loop without the `continue` of a line in a region.
RECURSIVE GenLinesKeeping(_, _, _)
GenLinesKeeping(lines, generating, c) ==
    IF lines = <<>> THEN <<>>
    ELSE LET l == Head(lines)
         IN  (IF IsGen(l) THEN <<l>> \o Content(c, l[1].v[1]) ELSE <<>>)
             \o (IF IsGen(l) THEN <<>> ELSE <<l>>)
             \o GenLinesKeeping(Tail(lines), generating, c)

\* The loop over s.lines() of main and of cargo.
RECURSIVE GenLines(_, _, _)
GenLines(lines, generating, c) ==
    IF lines = <<>> THEN <<>>
    ELSE LET l == Head(lines)
             started == IsGen(l) \/ generating
             skip == IF IsResume(l) THEN FALSE ELSE started
         IN  (IF IsGen(l) THEN <<l>> \o Content(c, l[1].v[1]) ELSE <<>>)
             \o (IF skip THEN <<>> ELSE <<l>>)
             \o GenLines(Tail(lines), skip, c)

\* The while loop over the inline markers of a line.
RECURSIVE InlineLoop(_, _)
InlineLoop(remaining, table) ==
    LET gen_start == First(remaining, LAMBDA x : x.k = "gen") IN
        IF gen_start = 0 THEN remaining
        ELSE LET marker == remaining[gen_start]
                 rest == SubSeq(remaining, gen_start + 1, Len(remaining))
                 resume_pos == First(rest, LAMBDA x : x.k = "resume")
             IN  SubSeq(remaining, 1, gen_start - 1)
                 \o <<marker>>
                 \o (IF StartsWith(marker.v[1], "LLVM_VERSION_LIST")
                     THEN <<generate_llvm_version_list(table)>> ELSE <<>>)
                 \o (IF resume_pos > 0
                     THEN <<Tok("resume", <<>>)>>
                          \o InlineLoop(SubSeq(rest, resume_pos + 1, Len(rest)), table)
                     ELSE InlineLoop(rest, table))

Has(l, k) == \E i \in 1..Len(l) : l[i].k = k

\* The loop over s.lines() of process_file_with_markers.
RECURSIVE MarkerLines(_, _, _)
MarkerLines(lines, in_block_gen, table) ==
    IF lines = <<>> THEN <<>>
    ELSE LET l == Head(lines)
             rest == Tail(lines)
         IN  IF Has(l, "gen") /\ Has(l, "resume") /\ ~IsGen(l)
             THEN <<InlineLoop(l, table)>> \o MarkerLines(rest, in_block_gen, table)
             ELSE IF IsGen(l)
             THEN <<l>>
                  \o (IF StartsWith(l[1].v[1], "LLVM_VERSION_TABLE")
                      THEN generate_llvm_version_table(table) ELSE <<>>)
                  \o MarkerLines(rest, TRUE, table)
             ELSE IF Len(l) >= 2 /\ l[1].k = "doc" /\ l[2].k = "gen"
             THEN <<l>>
                  \o (IF StartsWith(l[2].v[1], "FEATURE_FLAGS")
                      THEN (IF table = <<>> THEN <<<<>>>>
                            ELSE generate_feature_flags_doc(table))
                      ELSE <<>>)
                  \o MarkerLines(rest, TRUE, table)
             ELSE IF l = <<Tok("resume", <<>>)>> \/ l = <<Tok("doc", <<>>), Tok("resume", <<>>)>>
             THEN <<l>> \o MarkerLines(rest, FALSE, table)
             ELSE IF in_block_gen
             THEN MarkerLines(rest, in_block_gen, table)
             ELSE <<l>> \o MarkerLines(rest, in_block_gen, table)

process_file_with_markers(c) == MarkerLines(c.file, FALSE, c.table)
main(c) == GenLines(c.file, FALSE, c)
cargo(c) == GenLines(c.file, FALSE, c)

\* ---- the files and inputs the tool is run on

MaxRuns == 2
T_ == Tok("text", <<"a">>)
Doc_ == Tok("doc", <<>>)
Res_ == Tok("resume", <<>>)
Gen_(kind) == Tok("gen", <<kind>>)
OldList_ == Tok("list", <<"17">>)

\* The version tables of the two copies of the tool.
RewriteTables == {LLVMS, SubSeq(LLVMS, 1, 2)}
\* llvm-deps.list, as its lines; version.txt, as its text between line breaks
\* (the second has a final line break).
DepLists == {<<>>, <<"llvm-codegen-utils-core">>}
VersionTexts == {<<"0.1.0">>, <<"0.1.0", "">>}

CargoLineSet ==
    {<<T_>>, <<Res_>>,
     <<Tok("dep", <<"llvm-sys-170", "workspace=true", "optional=true">>)>>}
    \union {<<Gen_(k)>> : k \in {"LLVM", "LL_FEATURES", "LL_DEPS", "VERSION"}}
CargoFiles == UNION {[1..n -> CargoLineSet] : n \in 0..MaxCargoLines}

DocLineSet ==
    {<<T_>>, <<Res_>>, <<Doc_, Res_>>, <<T_, Res_>>,
     <<Gen_("LLVM_VERSION_TABLE")>>, <<Gen_("X")>>, <<Doc_, Gen_("FEATURE_FLAGS")>>,
     <<Tok("row", <<"LLVM 17", "llvm-sys-170", "^170">>)>>,
     <<Doc_, Tok("flag", <<"llvm-sys-170", "LLVM 17">>)>>,
     <<T_, Gen_("LLVM_VERSION_LIST"), OldList_, Res_, T_>>,
     <<T_, Gen_("LLVM_VERSION_LIST"), Res_>>,
     <<Doc_, Gen_("LLVM_VERSION_LIST"), OldList_, Res_>>,
     <<Gen_("LLVM_VERSION_LIST"), OldList_, Res_>>,
     <<T_, Res_, Gen_("LLVM_VERSION_LIST"), OldList_>>,
     <<T_, Gen_("LLVM_VERSION_LIST"), OldList_, Gen_("LLVM_VERSION_LIST"), Res_>>,
     <<T_, Gen_("LLVM_VERSION_LIST"), Res_, Gen_("X"), T_, Res_>>}
DocFiles == UNION {[1..n -> DocLineSet] : n \in 0..MaxDocLines}

\* main reads the workspace's Cargo.toml.
ReadWorkspaceCargo ==
    /\ text = <<>> /\ written = <<>>
    /\ \E file \in CargoFiles, table \in RewriteTables :
           /\ text' = <<[tool |-> "main", table |-> table, file |-> file,
                         deps |-> <<>>, ver |-> <<>>]>>
    /\ UNCHANGED <<wired, checked, written>>
    /\ UNCHANGED <<hvars, irvars, collected, outcome, features, expanded, done, avars>>

\* cargo reads a crate's Cargo.toml and llvm-deps.list, given version.txt.
ReadCrateCargo ==
    /\ text = <<>> /\ written = <<>>
    /\ \E file \in CargoFiles, deps \in DepLists, ver \in VersionTexts :
           /\ text' = <<[tool |-> "cargo", table |-> LLVMS, file |-> file,
                         deps |-> deps, ver |-> ver]>>
    /\ UNCHANGED <<wired, checked, written>>
    /\ UNCHANGED <<hvars, irvars, collected, outcome, features, expanded, done, avars>>

\* process_file_with_markers reads a documented file.
ReadDoc ==
    /\ text = <<>> /\ written = <<>>
    /\ \E file \in DocFiles, table \in RewriteTables :
           /\ text' = <<[tool |-> "markers", table |-> table, file |-> file,
                         deps |-> <<>>, ver |-> <<>>]>>
    /\ UNCHANGED <<wired, checked, written>>
    /\ UNCHANGED <<hvars, irvars, collected, outcome, features, expanded, done, avars>>

\* A run of the tool on the file: it writes the rewritten text, which the
\* next run reads.
Rewrite ==
    /\ text # <<>> /\ text[1].tool # "vers" /\ Len(written) < MaxRuns
    /\ LET c == [text[1] EXCEPT !.file = IF written = <<>> THEN text[1].file
                                         ELSE written[Len(written)]]
       IN  written' = Append(written,
                             CASE c.tool = "main" -> main(c)
                               [] c.tool = "cargo" -> cargo(c)
                               [] OTHER -> process_file_with_markers(c))
    /\ UNCHANGED <<wired, checked, text>>
    /\ UNCHANGED <<hvars, irvars, collected, outcome, features, expanded, done, avars>>

NextMaint == WriteVers \/ ReadWorkspaceCargo \/ ReadCrateCargo \/ ReadDoc \/ Rewrite

SpecMaint == Init /\ [][NextMaint]_vars

\* ------------------------------------------------------ what the claims read

Range(s) == {s[i] : i \in 1..Len(s)}
OwnedCreations == {c \in Creations : created[c].owned}
\* Live handles of creation c in each implementation.
LiveR(c) == CopiesIn(RegHandle(created[c].ptr, c), hR)
LiveA(c) == CopiesIn(c, hA)
\* Invocations of creation c's release routine so far.
CountR(c) == Cardinality({i \in 1..Len(relR) : relR[i].fn = c})
CountA(c) == Cardinality({i \in 1..Len(relA) : relA[i].fn = c})
\* Threads that have left the locked part of a drop and owe c's release routine.
OwingR(c) == {e \in BagToSet(pend) : e.r # <<>> /\ e.r[1].f = c}
OwingA(c) == {e \in BagToSet(pend) : e.a # <<>> /\ shim[e.a[1]].dropper = c}
InFlightR(c) == BagCardinality([e \in OwingR(c) |-> pend[e]])
InFlightA(c) == BagCardinality([e \in OwingA(c) |-> pend[e]])
\* Owning creations that only they and their clones have used the address of.
Unshared == OwnedCreations \ aliased
\* Every address handed to a constructor so far is non-null.
NonNull == \A c \in Creations : created[c].ptr # NULL

\* C1: for an owning handle that only it and its clones use, the release routine
\* is invoked at most once, never while a reference is live, and it has been
\* invoked once when every reference is dropped and no drop is in progress.
C1_ReleasedOnceAtLastDrop ==
    \A c \in Unshared :
        /\ CountR(c) <= 1 /\ CountA(c) <= 1
        /\ CountR(c) = 1 => ~Active(c)
        /\ CountA(c) = 1 => LiveA(c) = 0
        /\ (~Active(c) /\ pend = EmptyBag) => (CountR(c) = 1 /\ CountA(c) = 1)

C1_Witness ==
    \E c \in Unshared :
        c \in cloned /\ CountR(c) = 1 /\ CountA(c) = 1 /\ ~Active(c)

\* C2: no release routine of a foreign resource is invoked by a handle that
\* `leaked` made or by a clone of one: every invocation comes from a handle of an
\* owning creation.
C2_LeakedNeverReleases ==
    NonNull =>
        /\ \A i \in 1..Len(relR) : created[relR[i].box].owned
        /\ \A i \in 1..Len(relA) : relA[i].fn # NoopDropper => created[relA[i].box].owned

\* C3: the release routine of an owning handle that was cloned and whose
\* references are all dropped is invoked with the pointer and the payload given
\* at its creation.
C3_ReleasedWithOwnPointerAndPayload ==
    \A c \in Unshared :
        /\ \A i \in 1..Len(relR) :
               relR[i].fn = c =>
                   relR[i].ptr = created[c].ptr /\ relR[i].key = created[c].key
        /\ \A i \in 1..Len(relA) :
               relA[i].fn = c =>
                   relA[i].ptr = created[c].ptr /\ relA[i].key = created[c].key

C3_Witness ==
    \E c \in Unshared, d \in Creations :
        /\ c \in cloned /\ CountR(c) = 1 /\ CountA(c) = 1
        /\ created[d].ptr # created[c].ptr /\ created[d].key # created[c].key

\* C5: under every interleaving of the threads' clones and drops on one owning
\* resource, at most one thread ever owes or has made its release call (no double
\* release), only after the last reference is gone, and once the last reference is
\* gone exactly one thread owes or has made it (no leak).
C5_ConcurrentDropsReleaseOnce ==
    \A c \in Unshared :
        /\ InFlightR(c) + CountR(c) <= 1
        /\ InFlightA(c) + CountA(c) <= 1
        /\ InFlightR(c) > 0 => ~Active(c)
        /\ InFlightA(c) > 0 => LiveA(c) = 0
        /\ ~Active(c) => (InFlightR(c) + CountR(c) = 1 /\ InFlightA(c) + CountA(c) = 1)

C5_Witness ==
    \E c \in Unshared :
        /\ c \in cloned /\ InFlightR(c) = 1 /\ InFlightA(c) = 1
        /\ BagCardinality(pend) = 2

\* C6: resources registered under the same pointer value are independent: while
\* an owning handle is live its own ownership record is in place, and its release
\* routine runs only for its own last drop.
SameAddressOwned(c) ==
    \A d \in Creations : created[d].ptr = created[c].ptr => created[d].owned
C6_PerInstanceOwnership ==
    \A c \in OwnedCreations :
        (NonNull /\ SameAddressOwned(c)) =>
            /\ Active(c) =>
                   /\ created[c].ptr \in DOMAIN M
                   /\ M[created[c].ptr].f = c
                   /\ M[created[c].ptr].n + 1 = LiveR(c)
            /\ Active(c) => shim[c].strong = LiveA(c)
            /\ \A i \in 1..Len(relR) : relR[i].fn = c => (relR[i].box = c /\ ~Active(c))
            /\ \A i \in 1..Len(relA) : relA[i].fn = c => (relA[i].box = c /\ LiveA(c) = 0)

\* C7: a clone step adds one handle with the pointer and payload of its source,
\* invokes no release routine, raises the count of an owning source by exactly
\* one, and changes no ownership record when the source is non-owning.
CloneStep == created' = created /\ BagCardinality(hR') = BagCardinality(hR) + 1
CloneOf(h) ==
    /\ hR' = hR (+) SetToBag({h})
    /\ hA' = hA (+) SetToBag({h.key})
    /\ relR' = relR /\ relA' = relA /\ pend' = pend /\ keyFreed' = keyFreed
    /\ IF created[h.key].owned
       THEN /\ h.val \in DOMAIN M
            /\ M' = [M EXCEPT ![h.val].n = @ + 1]
            /\ shim' = [shim EXCEPT ![h.key].strong = @ + 1]
       ELSE /\ M' = M
            /\ \A c \in OwnedCreations : shim'[c] = shim[c]
C7_CloneFrame ==
    [][(NonNull /\ CloneStep) => \E h \in BagToSet(hR) : CloneOf(h)]_vars

\* C8: from_raw_parts with a null pointer fails and registers nothing.
C8_NullRejected ==
    /\ NULL \notin DOMAIN M
    /\ \A c \in OwnedCreations : created[c].ptr # NULL
    /\ \A c \in Creations : shim[c].dropper # NoopDropper => shim[c].val # NULL

\* The owning handles of the capability interfaces' Context and Module.
Owners == {c \in OwnedCreations : created[c].by \in {"user", "create_mod"}}

\* C4: the handle that Mod::ctx / Value::mod returns is a non-owning reference:
\* while a Context or Module handle is live, its count is the number of its own
\* live handles, and its release routine is invoked at most once and only when
\* none of its own handles is live.
C4_AliasLeavesOwnerAlone ==
    \A c \in Owners :
        /\ Active(c) =>
               /\ created[c].ptr \in DOMAIN M
               /\ M[created[c].ptr].f = c
               /\ M[created[c].ptr].n + 1 = LiveR(c)
        /\ Active(c) => shim[c].strong = LiveA(c)
        /\ CountR(c) + InFlightR(c) <= 1 /\ CountA(c) + InFlightA(c) <= 1
        /\ CountR(c) + InFlightR(c) > 0 => ~Active(c)
        /\ CountA(c) + InFlightA(c) > 0 => LiveA(c) = 0

\* The operands of an instruction that its signature types as a Value.
ValTags(r) ==
    IF r.op \notin InstOps THEN {}
    ELSE LET kinds == SelectSeq(InstTable[r.op], IsHandleKind)
         IN  {r.tags[i] : i \in {j \in 1..Len(kinds) : kinds[j] = "val"}}
TagsObeyed ==
    /\ \A a \in ObjsOf("BasicBlock") : objs[a].via = "FuncTag"
    /\ \A i \in 1..Len(insts) : ValTags(insts[i]) \subseteq {"Normal"}
    /\ \A i \in 1..Len(deferred) : ValTags(deferred[i]) \subseteq {"Normal"}
TagsKept ==
    \A c \in Creations :
        c \in DOMAIN created' /\ created'[c].key = created[c].key /\ created'[c].ty = created[c].ty

\* C9: BB::new is only ever applied to a Function-tagged Value, every Value
\* operand of an instruction is Normal-tagged, and no step changes the tag of
\* an existing handle.
C9_TagsGateOperations == [](TagsObeyed) /\ [][TagsKept]_vars

C9_Witness ==
    /\ ObjsOf("BasicBlock") # {}
    /\ \E i \in 1..Len(insts) : ValTags(insts[i]) # {}
    /\ HandlesOf("Value", "Normal") # {}
    /\ \E c \in Creations : created[c].ty = "Value" /\ created[c].key = "FuncTag"

\* The codes the specification gives for the three predicates.
EqualCode == "LLVMIntEQ"
UnsignedLessCode == "LLVMIntULT"
SignedLessCode == "LLVMIntSLT"
CodeFor(p) ==
    CASE p = "Eq" -> EqualCode
      [] p = "Lt" -> UnsignedLessCode
      [] p = "Lts" -> SignedLessCode
ICmpCalls == {r \in Range(insts) \cup Range(deferred) : r.op = "ICmp"}

\* C10: the conversion of ICmp is total and injective, and the ICmp operation
\* hands the backend the equal code for Eq, the unsigned-less code for Lt and
\* the signed-less code for Lts, and no other code.
C10_PredicateMapping ==
    /\ \A p \in ICmpPreds : IntPredicate(p) \in NativePreds
    /\ \A p, q \in ICmpPreds : IntPredicate(p) = IntPredicate(q) => p = q
    /\ \A r \in ICmpCalls :
           /\ r.raw[1] = CodeFor(r.pred)
           /\ r.raw[1] \in {EqualCode, UnsignedLessCode, SignedLessCode}

C10_Witness ==
    \E i \in 1..Len(insts) : insts[i].op = "ICmp" /\ insts[i].pred = "Lts"

\* The operations of the Builder that produce a result.
ResultOps ==
    {"Alloca", "Load2", "StructGEP2", "Add", "Sub", "Mul", "And", "Or", "Xor", "Neg", "Not",
     "TruncOrBitCast", "ICmp", "call", "gep2"}
\* The handles that the result-producing operations returned.
Results == {c \in Creations : \E i \in 1..Len(insts) :
                insts[i].res = c /\ insts[i].op \in ResultOps}

\* C11: every result of a result-producing instruction operation is a
\* non-owning Normal-tagged Value handle on the backend's result pointer, no
\* ownership record is kept for it, and no release routine is ever invoked by a
\* handle of it.
C11_ResultsNeverReleased ==
    /\ \A i \in 1..Len(insts) : insts[i].op \in ResultOps => insts[i].res \in Creations
    /\ \A c \in Results :
           /\ ~created[c].owned /\ created[c].key = "Normal" /\ created[c].ty = "Value"
           /\ \E i \in 1..Len(insts) : insts[i].res = c /\ created[c].ptr = insts[i].res
           /\ created[c].ptr \notin DOMAIN M
           /\ shim[c].dropper = NoopDropper
           /\ \A i \in 1..Len(relR) : relR[i].box # c /\ relR[i].fn # c
           /\ \A i \in 1..Len(relA) : relA[i].fn # c
           /\ \A e \in BagToSet(pend) : e.r = <<>> \/ (e.r[1].key # c /\ e.r[1].f # c)

\* A result whose handles are all dropped.
C11_Witness ==
    \E c \in Results :
        /\ ~Active(c) /\ shim[c].strong = 0 /\ pend = EmptyBag
        /\ \E i \in 1..Len(relA) : relA[i].box = c

\* The operations of the Builder that the descriptor table gives no result.
NoResultOps == {"Store", "Br", "CondBr"}

\* C12: Store, Br and CondBr return no Value: no handle is created for the
\* backend call of one.
C12_NoResultNoHandle ==
    \A i \in 1..Len(insts) : insts[i].op \in NoResultOps => insts[i].res \notin Creations

\* The functions of a module, the blocks of functions and the instructions
\* built into blocks, by the address of the parent.
FunctionsIn(m) == {a \in ObjsOf("Value") : objs[a].isfn /\ objs[a].parent = m}
BlocksIn(fs) == {a \in ObjsOf("BasicBlock") : objs[a].parent \in fs}
InstsIn(bs) == {a \in ObjsOf("Value") : objs[a].via = "inst" /\ objs[a].parent \in bs}
\* What the backend frees when the dropper that creation f was given is called
\* on ptr: LLVMDisposeBuilder frees the builder; LLVMDisposeModule the module
\* with its functions, their blocks and their instructions; the dropper of a
\* Context handle the context.
FreedBy(f, ptr) ==
    IF created[f].by = "create_mod"
    THEN {ptr} \cup FunctionsIn(ptr) \cup BlocksIn(FunctionsIn(ptr))
             \cup InstsIn(BlocksIn(FunctionsIn(ptr)))
    ELSE {ptr}
\* The owning handles Mod::create_mod and Builder::new_in_ctx returned.
ModulesMade == {c \in Creations : created[c].by = "create_mod"}
BuildersMade == {c \in Creations : created[c].by = "new_in_ctx"}
\* The release routine of creation c has run, or a thread is about to run it.
ReleasesR(c) == CountR(c) + InFlightR(c)
ReleasesA(c) == CountA(c) + InFlightA(c)

\* C14: create_mod and new_in_ctx return an owning handle on the new object;
\* its release routine is the dispose of that pointer, is invoked once, when the
\* last reference is dropped and not before; the dispose of a Builder frees the
\* builder only.
C14_ModuleAndBuilderOwned ==
    \A c \in ModulesMade \cup BuildersMade :
        /\ created[c].owned
        /\ created[c].ptr \in ObjsOf(IF c \in ModulesMade THEN "Module" ELSE "Builder")
        /\ \A i \in 1..Len(relR) : relR[i].fn = c => relR[i].ptr = created[c].ptr
        /\ \A i \in 1..Len(relA) : relA[i].fn = c => relA[i].ptr = created[c].ptr
        /\ ReleasesR(c) <= 1 /\ ReleasesA(c) <= 1
        /\ ReleasesR(c) = 1 <=> ~Active(c)
        /\ ReleasesA(c) = 1 <=> LiveA(c) = 0
        /\ c \in BuildersMade => FreedBy(c, created[c].ptr) = {created[c].ptr}

\* The handles of a module's children: functions, constants, blocks and
\* instruction results.
Children == {c \in Creations : created[c].by \in {"function", "const_int", "new", "inst"}}

\* C16: no handle of a child registers or invokes a release routine; the
\* release routine of a Module is invoked when its last reference is dropped,
\* and that one invocation frees every function, block and instruction in it.
C16_ModuleReleasesChildren ==
    /\ \A c \in Children :
           /\ ~created[c].owned
           /\ created[c].ptr \notin DOMAIN M
           /\ shim[c].dropper = NoopDropper
           /\ \A i \in 1..Len(relR) : relR[i].box # c /\ relR[i].fn # c
           /\ \A i \in 1..Len(relA) : relA[i].fn # c
    /\ \A m \in ModulesMade :
           /\ ReleasesR(m) = 1 <=> ~Active(m)
           /\ ReleasesA(m) = 1 <=> LiveA(m) = 0
           /\ \A a \in DOMAIN objs :
                  (objs[a].kind \in {"Value", "BasicBlock"} /\ objs[a].via # "const"
                   /\ (objs[a].parent = created[m].ptr
                       \/ (objs[a].parent \in DOMAIN objs
                           /\ (objs[objs[a].parent].parent = created[m].ptr
                               \/ (objs[objs[a].parent].parent \in DOMAIN objs
                                   /\ objs[objs[objs[a].parent].parent].parent = created[m].ptr)))))
                      => a \in FreedBy(m, created[m].ptr)

\* The Context an object of the backend belongs to: a Module, a Type and a
\* Builder are made in a Context, a constant in that of its type, a Function in
\* that of its module, a block in that of its function, an instruction in that
\* of its block (0 for one built by a cursor at no block).
RECURSIVE CtxOf(_)
CtxOf(a) ==
    IF a \notin DOMAIN objs THEN 0
    ELSE IF objs[a].kind = "Context" THEN a
    ELSE CtxOf(objs[a].parent)
\* The owning Context handles, and the handles on what was derived from one.
ContextsMade == {c \in Creations : created[c].by = "user"}
DerivedFrom(c) ==
    {d \in Creations : created[d].ty # "Context" /\ CtxOf(created[d].ptr) = created[c].ptr}

\* C17: a Context is not released while a handle on a Module, Builder, Type,
\* Value, Function or BasicBlock derived from it is live; its release comes
\* after the drop of all of them.
C17_ContextOutlivesDerived ==
    \A c \in ContextsMade :
        /\ ReleasesR(c) > 0 => \A d \in DerivedFrom(c) : ~Active(d)
        /\ ReleasesA(c) > 0 => \A d \in DerivedFrom(c) : LiveA(d) = 0

\* The instructions the backend was asked to build by cursor b, in call order.
BuiltBy(b) == SelectSeq(insts, LAMBDA r : r.bld = b)

\* C18: position_at changes only the cursor's current block; an instruction
\* operation calls the backend's constructor only while the cursor is positioned
\* at some block, and the instruction is appended to that block, in call order.
C18_BuildsOnlyWhilePositioned ==
    /\ \A b \in DOMAIN pos : pos[b] \in {0} \cup ObjsOf("BasicBlock")
    /\ \A i \in 1..Len(insts) :
        /\ insts[i].bb \in ObjsOf("BasicBlock")
        /\ objs[insts[i].res].parent = insts[i].bb
        /\ insts[i].res \in InstsIn({insts[i].bb})

\* Every function, block and instruction the backend holds.
AllFunctions == {a \in ObjsOf("Value") : objs[a].isfn}
AllInsts == {a \in ObjsOf("Value") : objs[a].via = "inst"}
\* The program has run to its end.
Finished == done = Steps /\ Quiet

\* C19: once the end-to-end program has run, module "m" holds exactly one
\* function, "f", with exactly the two blocks, the first holding the Add named
\* "r" of the argument and the constant followed by the Br to the second; at no
\* point is there any other function, block or instruction.
C19_EndToEnd ==
    /\ AllFunctions \subseteq {Made("fn")}
    /\ ObjsOf("BasicBlock") \subseteq {Made("entry"), Made("second")}
    /\ AllInsts = {insts[i].res : i \in 1..Len(insts)}
    /\ Len(insts) <= 2
    /\ Finished =>
        /\ objs[Made("mod")].kind = "Module" /\ objs[Made("mod")].name = "m"
        /\ ReleasesR(Made("mod")) = 0 /\ ReleasesA(Made("mod")) = 0
        /\ ReleasesR(Made("ctx")) = 0 /\ ReleasesA(Made("ctx")) = 0
        /\ FunctionsIn(Made("mod")) = {Made("fn")}
        /\ objs[Made("fn")].name = "f"
        /\ BlocksIn({Made("fn")}) = {Made("entry"), Made("second")}
        /\ objs[Made("entry")].name = "entry" /\ objs[Made("second")].name = "second"
        /\ [i \in 1..Len(insts) |-> [op |-> insts[i].op, bb |-> insts[i].bb, raw |-> insts[i].raw]]
               = << [op |-> "Add", bb |-> Made("entry"),
                     raw |-> <<Made("param"), Made("one"), "r">>],
                    [op |-> "Br", bb |-> Made("entry"), raw |-> <<Made("second")>>] >>
        /\ InstsIn({Made("entry")}) = {Made("add"), Made("br")}
        /\ objs[Made("add")].name = "r"
        /\ InstsIn({Made("second")}) = {}
        /\ objs[Made("param")].parent = Made("fn")

\* The program has run to its end, with its handles given away or held.
C19_Witness ==
    /\ Finished
    /\ Len(insts) = 2
    /\ \A step \in Steps \ {"pos"} : CopiesIn(H(step), hR) = Keep(step)

\* The handles the operations of impl Ty returned.
TypesMade == {c \in Creations : created[c].by \in {"int_ty", "ptr_ty", "fun_ty", "struct_ty"}}

\* C15: every Type that int_ty, ptr_ty, fun_ty or struct_ty returns is a
\* non-owning handle on a type of the backend: no release routine is registered
\* for it and none is invoked by a drop of it or of a clone of it.
C15_TypesNeverReleased ==
    \A c \in TypesMade :
        /\ ~created[c].owned /\ created[c].ty = "Type"
        /\ created[c].ptr \in ObjsOf("Type")
        /\ created[c].ptr \notin DOMAIN M
        /\ shim[c].dropper = NoopDropper
        /\ \A i \in 1..Len(relR) : relR[i].box # c /\ relR[i].fn # c
        /\ \A i \in 1..Len(relA) : relA[i].fn # c
        /\ \A e \in BagToSet(pend) : e.r = <<>> \/ (e.r[1].key # c /\ e.r[1].f # c)

\* Each operation has returned a Type, every Type handle is dropped, and the
\* Context is live and not released.
C15_Witness ==
    /\ {created[c].by : c \in TypesMade} = {"int_ty", "ptr_ty", "fun_ty", "struct_ty"}
    /\ \A c \in TypesMade : ~Active(c) /\ shim[c].strong = 0
    /\ \E c \in TypesMade : created[c].by = "fun_ty" /\ Len(objs[created[c].ptr].sig) = 2
    /\ pend = EmptyBag /\ relR = <<>>
    /\ \E c \in OwnedCreations : Active(c)

\* A length is below 2^32.
Fits(n) == n[1] = 0 /\ n[2] = 0

\* C13: an operation with a list panics before the backend is called when the
\* length of the list is not below 2^32, and otherwise hands the backend
\* exactly that length; a length reduced modulo 2^32 is never handed over.
C13_LengthFitsOrAborts ==
    \A i \in 1..Len(outcome) :
        LET n == collected[i].len
            o == outcome[i]
        IN  /\ o.panic <=> ~Fits(n)
            /\ o.panic => o.backend = "-"
            /\ ~o.panic =>
                   /\ o.backend = BackendOf(collected[i].op)
                   /\ <<0, 0, o.count[1], o.count[2]>> = n

\* A length above 2^32 whose low 32 bits are a count of their own.
C13_Witness ==
    /\ outcome # <<>> /\ outcome[1].panic
    /\ collected[1].len = <<0, 1, 0, 1>>
    /\ collected[1].op = "struct_ty"

\* Invocations in the expansion that name namespace ns.
Invocations(ns) == {i \in 1..Len(expanded[1]) : expanded[1][i].ns = ns}

\* C20: the expansion of vers!({contents} m) under a build holds exactly one
\* invocation m!(llvm_sys_V {contents}) for each enabled feature llvm-sys-V and
\* none for any other, each with the same contents and the full table.
C20_OneInvocationPerVersion ==
    expanded # <<>> =>
        LET b == features[1] IN
        /\ Len(expanded[1]) = Cardinality(b.enabled)
        /\ \A j \in 1..Len(VersLines) :
               Cardinality(Invocations(VersLines[j].ns)) =
                   (IF VersLines[j].feature \in b.enabled THEN 1 ELSE 0)
        /\ \A i \in 1..Len(expanded[1]) :
               /\ expanded[1][i].macro = b.macro
               /\ expanded[1][i].contents = b.contents
               /\ Impls(expanded[1][i].ns).llvm_sys = expanded[1][i].ns
               /\ Impls(expanded[1][i].ns).table = InstTable

\* Two versions selected side by side, two left out.
C20_Witness ==
    /\ expanded # <<>>
    /\ features[1].enabled = {"llvm-sys-180", "llvm-sys-210"}
    /\ features[1].macro = "impls" /\ features[1].contents = <<>>
    /\ Len(expanded[1]) = 2

\* What the constructor of the handle an accessor was called on was given.
GivenPtr(r) == created[r.box].ptr
GivenKey(r) == created[r.box].key

\* C23: ptr and key return the pointer and the payload given at the handle's
\* creation, for owning and non-owning handles alike, and a call of either
\* changes no count, no ownership record and no foreign state.
C23_AccessorsReadOnly ==
    /\ [](\A i \in 1..Len(read) :
             /\ \A j \in 1..Len(read[i].ptrs) : read[i].ptrs[j] = GivenPtr(read[i])
             /\ \A j \in 1..Len(read[i].keys) : read[i].keys[j] = GivenKey(read[i]))
    /\ [][read' # read => UNCHANGED <<hvars, irvars>>]_vars

\* C27: in the registry, for every address with a record the count plus one is
\* the number of live handles of the resource the record is of, and an owning
\* creation has its record exactly while its release routine has not been invoked.
C27_CountIsLiveHandles ==
    /\ \A p \in DOMAIN M : M[p].n + 1 = LiveR(M[p].f)
    /\ \A c \in OwnedCreations :
           (created[c].ptr \in DOMAIN M /\ M[created[c].ptr].f = c)
               <=> (CountR(c) + InFlightR(c) = 0)

\* C28: the payload storage of a live handle has not been consumed nor handed
\* to a release routine, in either implementation.
C28_PayloadOfLiveHandleIntact ==
    /\ \A h \in BagToSet(hR) :
           /\ h.key \notin keyFreed
           /\ \A e \in BagToSet(pend) : e.r = <<>> \/ e.r[1].key # h.key
    /\ \A c \in Creations :
           LiveA(c) > 0 =>
               /\ \A i \in 1..Len(relA) : relA[i].box # c
               /\ \A e \in BagToSet(pend) : e.a = <<>> \/ e.a[1] # c

\* The invocations of a release routine a caller gave, as the resource, the
\* pointer and the payload.
Observed(log) ==
    LET real == SelectSeq(log, LAMBDA r : r.fn # NoopDropper)
    IN  [i \in 1..Len(real) |-> [fn |-> real[i].fn, ptr |-> real[i].ptr, key |-> real[i].key]]

\* C30: the registry and the shared block invoke the release routines of the
\* same resources at the same steps with the same pointer and payload.
C30_SameReleases == Observed(relR) = Observed(relA)

\* C29: a release routine runs only once the thread has unlocked the registry
\* Mutex, no thread waits for a Mutex it holds itself, also when a release
\* routine creates, clones or drops handles, and every operation a thread has
\* started comes to its end.
C29_NoDeadlock ==
    /\ [](\A t \in Threads :
             stack[t] # <<>> =>
                 /\ Top(t).at = "call" => lock # t
                 /\ Top(t).at = "lock" => lock # t
                 /\ Top(t).at = "locked" => lock = t)
    /\ \A t \in Threads : (stack[t] # <<>>) ~> (stack[t] = <<>>)

\* A release routine drops a handle, and that drop runs another release
\* routine, while a second thread waits for the Mutex.
C29_Witness ==
    \E t \in Threads, u \in Threads :
        /\ t # u
        /\ Len(stack[t]) = 2
        /\ stack[t][1].at = "call" /\ stack[t][2].at = "locked"
        /\ RegDropCall(M, stack[t][2].h) # <<>>
        /\ stack[u] # <<>> /\ Top(u).at = "lock"

\* C21: a build that has expanded the crate's vers!({} impls) contains exactly
\* one implementation set; a build with no version feature or with several
\* does not get as far as an expansion.
C21_ExactlyOneImplSet ==
    (expanded # <<>> /\ features[1].macro = "impls") => Len(expanded[1]) = 1


\* C22: in implementation sets the compiler accepts, for every version the
\* Type and the Module of the Builder's ValueKind are the Builder's Type and
\* Module, the Context of the Builder's Module is the Builder's Context and the
\* Function type of the Builder's BasicBlock is a Value of the Builder's
\* ValueKind; the compiler accepts the implementation sets of impls!.
C22_BuilderBindingsConsistent ==
    checked # <<>> =>
        LET w == wired[1] IN
            /\ checked[1] =>
                \A l \in WiredVersions :
                    LET b == w[<<"HBuilder", l>>] IN
                        /\ Implements(b.ValKind, "ValueKind")
                        /\ Assoc(w, b.ValKind, "Ty") = b.Ty
                        /\ Assoc(w, b.ValKind, "Mod") = b.Mod
                        /\ Implements(b.Mod, "Mod")
                        /\ Assoc(w, b.Mod, "Ctx") = b.Ctx
                        /\ Implements(b.BB, "BB")
                        /\ Implements(Assoc(w, b.BB, "Func"), "Value")
                        /\ Assoc(w, Assoc(w, b.BB, "Func"), "Kind") = b.ValKind
            /\ w = AllImplSets => checked[1]

\* The implementation sets of impls! were compiled and accepted.
C22_Witness == checked = <<TRUE>> /\ wired = <<AllImplSets>>

\* C25: the generated vers! has one line per entry of the version table, in
\* the order of the table, the line of an entry guarded by the feature
\* "llvm-sys-<id>" and passing the identifier llvm_sys_<id>; and the lines of
\* the macros.rs in the repository and the feature list in the documentation
\* of the core crate are those of LLVMS: 190, 180, 200, 210.
C25_VersFollowsTable ==
    /\ (text # <<>> /\ text[1].tool = "vers") =>
           LET table == text[1].table
               out == written[1]
           IN  /\ Len(out) = Len(table)
               /\ \A i \in 1..Len(out) :
                      /\ out[i] = <<Tok("cfg", <<"llvm-sys-" \o table[i][1]>>),
                                    Tok("call", <<"llvm_sys_" \o table[i][1]>>)>>
               /\ table = LLVMS =>
                      [i \in 1..Len(out) |->
                          [feature |-> out[i][1].v[1], ns |-> out[i][2].v[1]]] = VersLines
    /\ [i \in 1..Len(LLVMS) |-> LLVMS[i][1]] = <<"190", "180", "200", "210">>
    /\ [i \in 1..Len(VersLines) |-> VersLines[i].feature]
           = [i \in 1..Len(LLVMS) |-> "llvm-sys-" \o LLVMS[i][1]]
    /\ [i \in 1..Len(CoreDocs) |-> CoreDocs[i][1]]
           = [i \in 1..Len(LLVMS) |-> "llvm-sys-" \o LLVMS[i][1]]
    /\ [i \in 1..Len(CoreDocs) |-> <<Doc_, Tok("flag", CoreDocs[i])>>]
           = generate_feature_flags_doc(LLVMS)

\* vers! was generated from the table of the repository.
C25_Witness ==
    /\ text # <<>> /\ text[1].tool = "vers" /\ text[1].table = LLVMS
    /\ Len(written) = 1 /\ Len(written[1]) = Len(LLVMS)

\* The markers of a file in the order they stand in.
Markers(file) == SelectSeq(Flat(file), LAMBDA x : x.k \in {"gen", "resume"})
\* Each GEN marker is followed by its RESUME marker.
WellMarked(file) ==
    LET m == Markers(file) IN
        \A i \in 1..Len(m) : m[i].k = "gen" => (i < Len(m) /\ m[i + 1].k = "resume")

InRegion(file, i) ==
    \E j \in 1..(i - 1) : IsGen(file[j]) /\ \A k \in (j + 1)..i : ~IsResume(file[k])
\* The lines of the file a rewrite keeps: the marker lines and those in no region.
KeptLine(file, i) == IsGen(file[i]) \/ ~InRegion(file, i)
\* The number of lines generated after a `# GEN kind` line.
GenLen(c, kind) ==
    CASE kind \in {"LLVM", "LL_FEATURES"} /\ c.tool = "cargo" -> Len(c.table)
      [] kind = "LLVM" /\ c.tool = "main" -> Len(c.table)
      [] kind = "LL_DEPS" /\ c.tool = "cargo" -> (Len(c.deps) + 1) * Len(c.ver)
      [] kind = "VERSION" /\ c.tool = "cargo" -> Len(c.ver)
      [] OTHER -> 0
\* The lines g are those generated after a `# GEN kind` line.
Generated(c, kind, g) ==
    /\ Len(g) = GenLen(c, kind)
    /\ \A n \in 1..Len(g) :
           /\ Len(g[n]) = 1
           /\ CASE kind = "LLVM" ->
                      /\ g[n][1].k = "dep"
                      /\ g[n][1].v[1] = "llvm-sys-" \o c.table[n][1]
                      /\ c.tool = "main" => g[n][1].v[2] = "version=^" \o c.table[n][2]
                [] kind = "LL_FEATURES" ->
                      /\ g[n][1].k = "feature"
                      /\ g[n][1].v[1] = "llvm-sys-" \o c.table[n][1]
                      /\ Len(g[n][1].v) = Len(c.deps) + 2
                [] kind = "LL_DEPS" ->
                      LET ds == c.deps \o <<"llvm-codegen-utils-version-macros">>
                          d == ds[((n - 1) \div Len(c.ver)) + 1]
                          m == ((n - 1) % Len(c.ver)) + 1
                      IN  /\ g[n][1].k = "ver"
                          /\ g[n][1].v[2] = c.ver[m]
                          /\ m = 1 => StartsWith(g[n][1].v[1], d \o " = ")
                [] OTHER ->
                      /\ g[n][1].k = "ver"
                      /\ g[n][1].v[2] = c.ver[n]
                      /\ n = 1 => g[n][1].v[1] = "version = "
\* out is the file with the lines of its regions dropped and, after each
\* `# GEN kind` line, lines that are Gen(kind, lines), N(kind) of them.
Regenerated(file, out, N(_), Gen(_, _)) ==
    LET Piece(i) ==
            IF ~KeptLine(file, i) THEN 0
            ELSE IF IsGen(file[i]) THEN 1 + N(file[i][1].v[1]) ELSE 1
        RECURSIVE Before(_)
        Before(i) == IF i = 1 THEN 0 ELSE Before(i - 1) + Piece(i - 1)
    IN  /\ Len(out) = Before(Len(file) + 1)
        /\ \A i \in 1..Len(file) :
               KeptLine(file, i) =>
                   /\ out[Before(i) + 1] = file[i]
                   /\ IsGen(file[i]) =>
                          Gen(file[i][1].v[1],
                              SubSeq(out, Before(i) + 2, Before(i) + Piece(i)))

\* C24, as the spec states it: a rewrite of a Cargo.toml by main or by cargo
\* keeps the lines outside the regions and the marker lines, in order, and
\* between the markers of a region stands one generated line per entry of the
\* version table, in the order of the table, whatever the kind of the marker.
C24_OneLinePerEntry ==
    (written # <<>> /\ text[1].tool \in {"main", "cargo"}) =>
        Regenerated(text[1].file, written[1],
                    LAMBDA kind : Len(text[1].table),
                    LAMBDA kind, g :
                        \A n \in 1..Len(g) :
                            \E x \in 1..Len(g[n][1].v) :
                                g[n][1].v[x] = "llvm-sys-" \o text[1].table[n][1])

\* C24, amended: a rewrite of a Cargo.toml by main or by cargo keeps, in
\* order, the marker lines and the lines in no region, a region being the
\* lines after a `# GEN` line up to the next `# RESUME` line or, without one,
\* the end of the file; it drops the other lines of a region; and after each
\* `# GEN` line stands what is generated for its kind: by cargo one line per
\* entry of the version table, in table order, for LLVM and for LL_FEATURES,
\* one entry per line of llvm-deps.list and one for
\* llvm-codegen-utils-version-macros for LL_DEPS, and the version entry for
\* VERSION, an entry with the text of version.txt taking as many lines as that
\* text has; by main one line per entry of the table for LLVM and nothing for
\* the other kinds.
C24_ContentPerKind ==
    (written # <<>> /\ text[1].tool \in {"main", "cargo"}) =>
        Regenerated(text[1].file, written[1],
                    LAMBDA kind : GenLen(text[1], kind),
                    LAMBDA kind, g : Generated(text[1], kind, g))

\* cargo rewrote a file with an LL_DEPS region that held an old line and with
\* a line after the region.
C24_Witness ==
    /\ Len(written) = 1 /\ text[1].tool = "cargo" /\ text[1].deps # <<>>
    /\ text[1].file = <<<<Gen_("LL_DEPS")>>, <<T_>>, <<Res_>>, <<T_>>>>
    /\ Len(written[1]) = 3 + (Len(text[1].deps) + 1) * Len(text[1].ver)

====
